---- MODULE Spec2Model ----
(***************************************************************************)
(* Dataset analytics engine: the aggregation worker (data.worker.js), the  *)
(* dispatch boundary of the Visualizations view (useDataProcessor) and the *)
(* chart state reducer.                                                    *)
(***************************************************************************)
EXTENDS Integers, Sequences, FiniteSets, TLC

(***************************************************************************)
(* Loosely typed scalars.  A cell is a number, a string, null, undefined   *)
(* (also: an absent key) or an object that cannot be converted to a        *)
(* primitive (JSON such as {"toString": 1, "valueOf": 1}).  A string is    *)
(* either the canonical decimal form of a natural number (n >= 0, s = "")  *)
(* or a text that is not a canonical array index (n = -1).                 *)
(***************************************************************************)
Num(n) == [t |-> "num", n |-> n, s |-> ""]
DigitStr(n) == [t |-> "str", n |-> n, s |-> ""]
Str(s) == [t |-> "str", n |-> -1, s |-> s]
Null == [t |-> "null", n |-> -1, s |-> ""]
Undefined == [t |-> "undef", n |-> -1, s |-> ""]
BadObj == [t |-> "obj", n |-> -1, s |-> ""]

\* Rational numbers in lowest terms with a positive denominator.
RECURSIVE Gcd(_, _)
Gcd(a, b) == IF b = 0 THEN a ELSE Gcd(b, a % b)
Abs(a) == IF a < 0 THEN -a ELSE a
Rat(num, den) ==
  LET g == Gcd(Abs(num), den)
  IN [num |-> num \div g, den |-> den \div g]

\* Columns of the modelled datasets and the bounds of the explored inputs.
Columns == <<"region", "sales">>
MaxRows == 2
ResultCap == 1000

(***************************************************************************)
(* Conversions of data.worker.js.                                          *)
(***************************************************************************)
\* row?.[col]: an absent key reads as undefined.
Cell(row, col) == IF col \in DOMAIN row THEN row[col] ELSE Undefined

\* x ?? 'Unknown'
OrUnknown(v) == IF v.t \in {"null", "undef"} THEN Str("Unknown") ELSE v

\* ToPrimitive fails on an object whose toString and valueOf are not callable.
ThrowsOnCoerce(v) == v.t = "obj"

\* String(x) and property-key coercion of x, for x that does not throw.
String(v) ==
  CASE v.t = "num" -> DigitStr(v.n)
    [] v.t = "str" -> v
    [] v.t = "null" -> Str("null")
    [] OTHER -> Str("undefined")

\* Number(x): [nan, n].
Number(v) ==
  CASE v.t = "num" -> [nan |-> FALSE, n |-> v.n]
    [] v.t = "str" /\ v.n >= 0 -> [nan |-> FALSE, n |-> v.n]
    [] v.t = "str" /\ v.s = "" -> [nan |-> FALSE, n |-> 0]
    [] v.t = "null" -> [nan |-> FALSE, n |-> 0]
    [] OTHER -> [nan |-> TRUE, n |-> 0]

\* Number(x) || 0
NumberOrZero(v) == LET y == Number(v) IN IF y.nan \/ y.n = 0 THEN 0 ELSE y.n

\* v || d on configuration strings: "" stands for an absent or empty field.
OrDefault(v, d) == IF v = "" THEN d ELSE v

(***************************************************************************)
(* Ordering helpers.                                                       *)
(***************************************************************************)
RECURSIVE Digits(_)
Digits(n) == IF n < 10 THEN <<n>> ELSE Append(Digits(n \div 10), n % 10)

RECURSIVE LexCompare(_, _, _)
LexCompare(a, b, i) ==
  IF i > Len(a) /\ i > Len(b) THEN 0
  ELSE IF i > Len(a) THEN -1
  ELSE IF i > Len(b) THEN 1
  ELSE IF a[i] < b[i] THEN -1
  ELSE IF a[i] > b[i] THEN 1
  ELSE LexCompare(a, b, i + 1)

\* Collation position of the texts that occur in the modelled data.
TextRank(s) ==
  CASE s = "" -> 0
    [] s = "A" -> 2
    [] s = "B" -> 3
    [] s = "N/A" -> 4
    [] s = "null" -> 5
    [] s = "undefined" -> 6
    [] s = "Unknown" -> 7
    [] OTHER -> 8

\* a.localeCompare(b) on strings: the empty string, then digit strings
\* (compared character by character), then letters.
LocaleCompare(a, b) ==
  IF a.n >= 0 /\ b.n >= 0 THEN LexCompare(Digits(a.n), Digits(b.n), 1)
  ELSE IF a.n >= 0 THEN (IF b.s = "" THEN 1 ELSE -1)
  ELSE IF b.n >= 0 THEN (IF a.s = "" THEN -1 ELSE 1)
  ELSE IF TextRank(a.s) < TextRank(b.s) THEN -1
  ELSE IF TextRank(a.s) > TextRank(b.s) THEN 1
  ELSE 0

\* a.value - b.value on rationals (sign only matters).
ValueDiff(a, b) == a.num * b.den - b.num * a.den

\* A slice that keeps everything.
SliceNoCap(s, k) == s

\* arr.slice(0, k)
Slice(s, k) == IF Len(s) <= k THEN s ELSE SubSeq(s, 1, k)

\* The comparators: the two of each sort branch, and the ascending order of
\* integer-index property keys.
Compare(order, a, b) ==
  CASE order = "valueAsc" -> ValueDiff(a.value, b.value)
    [] order = "valueDesc" -> ValueDiff(b.value, a.value)
    [] order = "nameAsc" -> LocaleCompare(a.name, b.name)
    [] order = "nameDesc" -> LocaleCompare(b.name, a.name)
    [] OTHER -> a.key.n - b.key.n

\* Array.prototype.sort with the comparator named by order: a stable sort.
StableSort(s, order) ==
  LET n == Len(s)
      Rank(i) == Cardinality({j \in 1..n : Compare(order, s[j], s[i]) < 0
                                           \/ (Compare(order, s[j], s[i]) = 0 /\ j < i)}) + 1
      pairs == {<<Rank(i), i>> : i \in 1..n}
  IN [p \in 1..n |-> s[(CHOOSE pr \in pairs : pr[1] = p)[2]]]

(***************************************************************************)
(* data.worker.js: self.onmessage.                                         *)
(* event.data is [data, config]; data is [kind, rows] with kind "array",   *)
(* "none" (null or undefined) or "object" (a truthy value that is neither  *)
(* an array nor iterable); config fields are strings, "" when absent.      *)
(***************************************************************************)
IsArray(data) == data.kind = "array"

ErrorMsg(text) == [status |-> "error", data |-> <<>>, error |-> text]
SuccessMsg(points) == [status |-> "success", data |-> points, error |-> ""]

\* A loop body that keys the groups by the raw value (a Map) instead of by
\* the property key.
GroupStepRawKey(acc, row, xAxis, yAxis) ==
  IF acc.threw THEN acc
  ELSE
    LET x == OrUnknown(Cell(row, xAxis))
        yv == Cell(row, yAxis)
    IN IF ThrowsOnCoerce(yv) \/ ThrowsOnCoerce(x)
       THEN [acc EXCEPT !.threw = TRUE]
       ELSE
         LET y == NumberOrZero(yv)
             key == x
             g == acc.groups
             g1 == IF \E j \in 1..Len(g) : g[j].key = key
                   THEN g
                   ELSE Append(g, [key |-> key, name |-> x, value |-> 0, count |-> 0])
         IN [acc EXCEPT !.groups =
               [j \in 1..Len(g1) |->
                  IF g1[j].key = key
                  THEN [g1[j] EXCEPT !.value = @ + y, !.count = @ + 1]
                  ELSE g1[j]]]

\* A loop body that skips the rows whose value is not a number.
GroupStepDropsNaN(acc, row, xAxis, yAxis) ==
  IF acc.threw THEN acc
  ELSE
    LET x == OrUnknown(Cell(row, xAxis))
        yv == Cell(row, yAxis)
    IN IF ThrowsOnCoerce(yv) \/ ThrowsOnCoerce(x)
       THEN [acc EXCEPT !.threw = TRUE]
       ELSE IF Number(yv).nan THEN acc
       ELSE
         LET y == NumberOrZero(yv)
             key == String(x)
             g == acc.groups
             g1 == IF \E j \in 1..Len(g) : g[j].key = key
                   THEN g
                   ELSE Append(g, [key |-> key, name |-> x, value |-> 0, count |-> 0])
         IN [acc EXCEPT !.groups =
               [j \in 1..Len(g1) |->
                  IF g1[j].key = key
                  THEN [g1[j] EXCEPT !.value = @ + y, !.count = @ + 1]
                  ELSE g1[j]]]

\* One iteration of the grouping loop.  groups holds the entries of the
\* groups object in insertion order; threw records an exception.
GroupStep(acc, row, xAxis, yAxis) ==
  IF acc.threw THEN acc
  ELSE
    LET x == OrUnknown(Cell(row, xAxis))
        yv == Cell(row, yAxis)
    IN IF ThrowsOnCoerce(yv) \/ ThrowsOnCoerce(x)
       THEN [acc EXCEPT !.threw = TRUE]
       ELSE
         LET y == NumberOrZero(yv)
             key == String(x)
             g == acc.groups
             g1 == IF \E j \in 1..Len(g) : g[j].key = key
                   THEN g
                   ELSE Append(g, [key |-> key, name |-> x, value |-> 0, count |-> 0])
         IN [acc EXCEPT !.groups =
               [j \in 1..Len(g1) |->
                  IF g1[j].key = key
                  THEN [g1[j] EXCEPT !.value = @ + y, !.count = @ + 1]
                  ELSE g1[j]]]

\* for (const row of data) { ... } over rows lo..hi, left to right.
RECURSIVE GroupLoop(_, _, _, _, _, _)
GroupLoop(rows, lo, hi, acc, xAxis, yAxis) ==
  IF lo > hi THEN acc
  ELSE IF lo = hi THEN GroupStep(acc, rows[lo], xAxis, yAxis)
  ELSE LET mid == (lo + hi) \div 2
           left == GroupLoop(rows, lo, mid, acc, xAxis, yAxis)
       IN IF Len(left.groups) >= 0
          THEN GroupLoop(rows, mid + 1, hi, left, xAxis, yAxis)
          ELSE left

Groups(rows, xAxis, yAxis) ==
  GroupLoop(rows, 1, Len(rows), [groups |-> <<>>, threw |-> FALSE], xAxis, yAxis)

\* Object.values(groups): integer-index keys in ascending numeric order,
\* then the other keys in insertion order.
IsIndexKey(g) == g.key.n >= 0
IsTextKey(g) == g.key.n < 0
ObjectValues(g) ==
  StableSort(SelectSeq(g, IsIndexKey), "index") \o SelectSeq(g, IsTextKey)

\* A map step that emits the sum in every mode.
PointAlwaysSum(g, aggregation) ==
  [name |-> String(g.name), value |-> Rat(g.value, 1), size |-> g.count]

\* g => ({ name: String(g.name), value: ..., size: g.count })
Point(g, aggregation) ==
  [name |-> String(g.name),
   value |-> IF aggregation = "average" /\ g.count > 0
             THEN Rat(g.value, g.count)
             ELSE Rat(g.value, 1),
   size |-> g.count]

SortPoints(points, sortKey, sortDirection) ==
  IF sortKey = "y"
  THEN IF sortDirection = "asc" THEN StableSort(points, "valueAsc")
                                ELSE StableSort(points, "valueDesc")
  ELSE IF sortDirection = "asc" THEN StableSort(points, "nameAsc")
                                ELSE StableSort(points, "nameDesc")

\* The points before the slice.
SortedPoints(groups, config) ==
  LET aggregation == OrDefault(config.aggregation, "sum")
      sortKey == OrDefault(config.sortKey, "y")
      sortDirection == OrDefault(config.sortDirection, "desc")
      vals == ObjectValues(groups)
      result == [j \in 1..Len(vals) |-> Point(vals[j], aggregation)]
  IN SortPoints(result, sortKey, sortDirection)

\* A result cut to 1000 groups before it is sorted.
AggregateSliceFirst(groups, config) ==
  LET aggregation == OrDefault(config.aggregation, "sum")
      vals == Slice(ObjectValues(groups), ResultCap)
      result == [j \in 1..Len(vals) |-> Point(vals[j], aggregation)]
  IN SortPoints(result, OrDefault(config.sortKey, "y"),
                OrDefault(config.sortDirection, "desc"))

\* result.slice(0, 1000)
Aggregate(groups, config) == Slice(SortedPoints(groups, config), ResultCap)

\* A guard that posts its error and falls through.
ReturnedFallsThrough(ed) == FALSE

\* The early exit of line 6.
Returned(ed) == ~IsArray(ed.data)

\* Messages posted by the guard on the data argument.
GuardPosts(ed) ==
  IF ~IsArray(ed.data) THEN <<ErrorMsg("No data array provided")>> ELSE <<>>

\* Messages posted by the rest of the try block and by the catch block.
BodyPosts(ed) ==
  IF ~IsArray(ed.data)
  THEN <<ErrorMsg("TypeError: data is not iterable")>>
  ELSE LET acc == Groups(ed.data.rows, ed.config.xAxis, ed.config.yAxis)
       IN IF acc.threw
          THEN <<ErrorMsg("TypeError: Cannot convert object to primitive value")>>
          ELSE <<SuccessMsg(Aggregate(acc.groups, ed.config))>>

\* The value of result when line 36 is reached, <<>> when it is not.
PointsBeforeSlice(ed) ==
  IF ~IsArray(ed.data) THEN <<>>
  ELSE LET acc == Groups(ed.data.rows, ed.config.xAxis, ed.config.yAxis)
       IN IF acc.threw THEN <<>> ELSE SortedPoints(acc.groups, ed.config)

\* All messages posted while handling one event, in order.
OnMessagePosts(ed) ==
  GuardPosts(ed) \o (IF Returned(ed) THEN <<>> ELSE BodyPosts(ed))

(***************************************************************************)
(* State.                                                                  *)
(***************************************************************************)
VARIABLES
  view,        \* "unmounted", "mounted" or "discarded"
  dataset,     \* the context's dataset: [ver, data]; ver = 0 when null
  state,       \* ChartState of the view
  chartData,   \* the applied result set
  workerRef,   \* workerRef.current: 0 when null, else a worker id
  workers,     \* workers[w]: "live" or "terminated", for every created worker
  inbox,       \* inbox[w]: requests queued at worker w, oldest first
  outbox,      \* responses queued for the view's onmessage, oldest first
  lastDeps,    \* dependencies the processing effect last ran with
  nextId,      \* history: number of the next request
  sent,        \* history: sent[i] is what request i was dispatched with
  handledLog,  \* history: ids of the requests the worker handled, in order
  postLog,     \* history: ids of the requests whose responses were posted, in order
  received,    \* history: the responses consumed by the view, oldest first
  lostPosts,   \* history: number of requests posted to a terminated worker
  aggIn,       \* event.data of the handler run on its own
  aggOut,      \* the messages that run posted
  aggPre,      \* history: the sorted points of that run before the slice
  aggPc,       \* "idle", "ready" or "done"
  sumIn,       \* the dataset given to calculateMetricsFromData
  sumAlt,      \* the same dataset with rows and keys rearranged
  sumOut,      \* the summaries returned for sumIn and sumAlt
  sumPc,       \* "idle", "ready" or "done"
  ctx,         \* DataProvider state: dataset, rawDataset, dataSummary, updateCounter
  ctxCalls,    \* history: number of context operations called
  qIn,         \* the arguments of computeQualityScore
  qOut,        \* what computeQualityScore returned
  qPc,         \* "idle", "ready" or "done"
  ovIn,        \* the arguments of the Overview function run on its own
  ovOut,       \* what that function returned
  ovPc,        \* "idle", "ready" or "done"
  pv,          \* Overview preview state: dataset, rowLimit, previewData, fetches
  actionLog    \* history: the actions dispatched to chartStateReducer on its own

vars == <<view, dataset, state, chartData, workerRef, workers, inbox, outbox,
          lastDeps, nextId, sent, handledLog, postLog, received, lostPosts,
          aggIn, aggOut, aggPre, aggPc, sumIn, sumAlt, sumOut, sumPc,
          ctx, ctxCalls, qIn, qOut, qPc, ovIn, ovOut, ovPc, pv, actionLog>>

viewVars == <<view, dataset, state, chartData, workerRef, workers, inbox, outbox,
              lastDeps, nextId, sent, handledLog, postLog, received, lostPosts>>
aggVars == <<aggIn, aggOut, aggPre, aggPc>>
sumVars == <<sumIn, sumAlt, sumOut, sumPc>>
ctxVars == <<ctx, ctxCalls>>
qVars == <<qIn, qOut, qPc>>
ovVars == <<ovIn, ovOut, ovPc, pv>>
chartVars == <<actionLog>>

\* calculateMetricsFromData, the DataProvider and computeQualityScore at rest.
SumIdle == sumIn = <<>> /\ sumAlt = <<>> /\ sumOut = <<>> /\ sumPc = "idle"
CtxIdle == ctx = <<>> /\ ctxCalls = 0
QIdle == qIn = <<>> /\ qOut = <<>> /\ qPc = "idle"
OvIdle == ovIn = <<>> /\ ovOut = <<>> /\ ovPc = "idle" /\ pv = <<>>
ChartIdle == actionLog = <<>>

NoData == [kind |-> "none", rows |-> <<>>]
ObjectData == [kind |-> "object", rows |-> <<>>]
ArrayData(rows) == [kind |-> "array", rows |-> rows]

Row(k, v) == [region |-> k, sales |-> v]

\* Visualizations: initialState.
InitialState ==
  [xAxis |-> "", yAxis |-> "", aggregation |-> "sum", sortKey |-> "y",
   sortDirection |-> "desc", isProcessing |-> FALSE]

NoDeps == [ver |-> -1, xAxis |-> "", yAxis |-> "", aggregation |-> "",
           sortKey |-> "", sortDirection |-> ""]

ViewInit ==
  /\ view = "unmounted"
  /\ dataset = [ver |-> 0, data |-> NoData]
  /\ state = InitialState
  /\ chartData = <<>>
  /\ workerRef = 0
  /\ workers = <<>>
  /\ inbox = <<>>
  /\ outbox = <<>>
  /\ lastDeps = NoDeps
  /\ nextId = 1
  /\ sent = <<>>
  /\ handledLog = <<>>
  /\ postLog = <<>>
  /\ received = <<>>
  /\ lostPosts = 0

(***************************************************************************)
(* The handler on its own, over bounded inputs.                            *)
(***************************************************************************)
KeyVals == {Str("A"), Str(""), Num(1), DigitStr(1), Num(2), Null, Undefined, BadObj}
ValVals == {Num(10), Str("N/A"), BadObj}
AggRows == {Row(k, v) : k \in KeyVals, v \in ValVals}

RECURSIVE SeqsUpTo(_, _)
SeqsUpTo(S, n) ==
  IF n = 0 THEN {<<>>}
  ELSE LET shorter == SeqsUpTo(S, n - 1)
       IN shorter \cup {Append(q, e) : q \in {r \in shorter : Len(r) = n - 1}, e \in S}

AggConfigs ==
  [xAxis : {"region"}, yAxis : {"sales"}, aggregation : {"sum", "average"},
   sortKey : {"x", "y"}, sortDirection : {"asc", "desc"}]

\* The dataset of the documented scenarios.
SampleRows == <<Row(Str("A"), Num(10)), Row(Str("A"), Num(20)), Row(Str("B"), Num(5))>>

\* More groups than the cap: keys 1..ResultCap + 1, values 0, 1, 2 in turn.
BigRows == [i \in 1..(ResultCap + 1) |-> Row(Num(i), Num(i % 3))]
BigConfigs ==
  {c \in AggConfigs : c.aggregation = "sum" /\ c.sortKey = "y"}

AggInputs ==
  {[data |-> ArrayData(rows), config |-> c] : rows \in SeqsUpTo(AggRows, MaxRows), c \in AggConfigs}
    \cup {[data |-> d, config |-> c] : d \in {NoData, ObjectData}, c \in AggConfigs}
    \cup {[data |-> ArrayData(SampleRows), config |-> c] : c \in AggConfigs}
    \cup {[data |-> ArrayData(BigRows), config |-> c] : c \in BigConfigs}

InitAgg ==
  /\ ViewInit
  /\ SumIdle
  /\ CtxIdle
  /\ QIdle
  /\ OvIdle
  /\ aggIn \in AggInputs
  /\ aggOut = <<>>
  /\ aggPre = <<>>
  /\ aggPc = "ready"
  /\ ChartIdle

\* The worker receives aggIn and runs self.onmessage to completion.
AggRun ==
  /\ aggPc = "ready"
  /\ aggOut' = OnMessagePosts(aggIn)
  /\ aggPre' = PointsBeforeSlice(aggIn)
  /\ aggPc' = "done"
  /\ UNCHANGED <<aggIn, viewVars, sumVars, ctxVars, qVars, ovVars, chartVars>>

NextAgg == AggRun

SpecAgg == InitAgg /\ [][NextAgg]_vars

(***************************************************************************)
(* Visualizations.tsx: chart state reducer.                                *)
(***************************************************************************)
\* A SET_AXIS without the swap: the named axis takes the value.
SetAxisReducerNoSwap(st, axis, value) ==
  IF axis = "x" THEN [st EXCEPT !.xAxis = value] ELSE [st EXCEPT !.yAxis = value]

\* case "SET_AXIS"
SetAxisReducer(st, axis, value) ==
  IF axis = "x" /\ value = st.yAxis
  THEN [st EXCEPT !.xAxis = value, !.yAxis = st.xAxis]
  ELSE IF axis = "y" /\ value = st.xAxis
  THEN [st EXCEPT !.yAxis = value, !.xAxis = st.yAxis]
  ELSE IF axis = "x" THEN [st EXCEPT !.xAxis = value]
  ELSE [st EXCEPT !.yAxis = value]

SetAggregationReducer(st, a) == [st EXCEPT !.aggregation = a]
SetSortReducer(st, key, direction) ==
  [st EXCEPT !.sortKey = key, !.sortDirection = direction]
InitStateReducer(st, x, y) == [st EXCEPT !.xAxis = x, !.yAxis = y]
SetProcessingReducer(st, b) == [st EXCEPT !.isProcessing = b]

(***************************************************************************)
(* Visualizations.tsx: column types and the initial axes.                  *)
(***************************************************************************)
\* dataset?.columns: a null dataset has none.
AllColumns(ds) == IF ds.data.kind = "none" THEN <<>> ELSE Columns

\* dataset.data?.[0] || {}
SampleRow(ds) ==
  IF IsArray(ds.data) /\ Len(ds.data.rows) > 0
  THEN ds.data.rows[1]
  ELSE [c \in {} |-> Undefined]

IsNumericColumn(ds, c) == Cell(SampleRow(ds), c).t = "num"
NumericColumns(ds) ==
  LET Test(c) == IsNumericColumn(ds, c) IN SelectSeq(AllColumns(ds), Test)
CategoricalColumns(ds) ==
  LET Test(c) == ~IsNumericColumn(ds, c) IN SelectSeq(AllColumns(ds), Test)

\* a[i] || alt on column names
ElemOr(a, i, alt) == IF i <= Len(a) THEN a[i] ELSE alt

InitialX(ds) == ElemOr(CategoricalColumns(ds), 1, ElemOr(AllColumns(ds), 1, ""))
InitialY(ds) ==
  ElemOr(NumericColumns(ds), 1, ElemOr(AllColumns(ds), 2, ElemOr(AllColumns(ds), 1, "")))

\* The condition of the axes effect.
NeedsInit(ds, st) == Len(AllColumns(ds)) > 0 /\ st.xAxis = ""

(***************************************************************************)
(* Visualizations.tsx: useDataProcessor and the processing effect.         *)
(***************************************************************************)
MaxRequests == 2
MaxLoads == 2

\* useCallback(..., []): whether a render hands new callbacks to the hook.
MemoizedCallbacksChange == FALSE

\* The config object of the processing effect, as the worker reads it.
ConfigOf(st) ==
  [xAxis |-> st.xAxis, yAxis |-> st.yAxis, aggregation |-> st.aggregation,
   sortKey |-> st.sortKey, sortDirection |-> st.sortDirection]

\* The dependency list of the processing effect.
Deps(ds, st) ==
  [ver |-> ds.ver, xAxis |-> st.xAxis, yAxis |-> st.yAxis,
   aggregation |-> st.aggregation, sortKey |-> st.sortKey,
   sortDirection |-> st.sortDirection]

\* dataset?.data && state.xAxis && state.yAxis
ShouldProcess(ds, st) ==
  ds.data.kind /= "none" /\ st.xAxis /= "" /\ st.yAxis /= ""

\* A cleanup that leaves the worker running.
TerminateWorkerNoop(ws, ref) == ws

\* workerRef.current?.terminate(): the worker stops and its queued messages,
\* in both directions, are discarded.
TerminateWorker(ws, ref) ==
  IF ref = 0 THEN ws ELSE [ws EXCEPT ![ref] = "terminated"]

\* A worker that reads the caller's current dataset and chart state instead of
\* the copy in the message.
EventDataShared(req) == [data |-> dataset.data, config |-> ConfigOf(state)]

\* const { data, config } = event.data: the payload the worker computes on is
\* the structured clone made by postMessage.
EventData(req) == [data |-> req.data, config |-> req.config]

\* An event loop that takes the newest queued message.
TakeNewest(q) == Len(q)

\* The event loop of the worker takes the oldest queued message.
TakeIndex(q) == 1

RemoveAt(q, i) == SubSeq(q, 1, i - 1) \o SubSeq(q, i + 1, Len(q))

\* An onmessage that applies the data field of every response.
AppliesDataAlways(msg) == TRUE

\* onmessage of the view: status === "success" calls onDataProcessed(data).
AppliesData(msg) == msg.status = "success"

\* An onmessage that clears the indicator in the success branch only.
ProcessingUntilSuccess(msg) == msg.status /= "success"

\* onmessage of the view: onProcessingChange(false).
ProcessingOnResponse(msg) == FALSE

\* One flush of the view's effects, in declaration order: the axes effect,
\* the worker effect (set up again when recreate), the processing effect.
EffectsFlush(recreate) ==
  LET init == NeedsInit(dataset, state)
      st1 == IF init THEN InitStateReducer(state, InitialX(dataset), InitialY(dataset))
             ELSE state
      ws0 == IF recreate THEN TerminateWorker(workers, workerRef) ELSE workers
      ws1 == IF recreate THEN Append(ws0, "live") ELSE ws0
      ref1 == IF recreate THEN Len(ws1) ELSE workerRef
      ib0 == IF recreate /\ workerRef /= 0 THEN [inbox EXCEPT ![workerRef] = <<>>] ELSE inbox
      ib1 == IF recreate THEN Append(ib0, <<>>) ELSE ib0
      FromOther(m) == m.worker /= workerRef
      ob1 == IF recreate THEN SelectSeq(outbox, FromOther) ELSE outbox
      run == Deps(dataset, state) /= lastDeps
      post == run /\ ShouldProcess(dataset, state) /\ ref1 /= 0
      req == [id |-> nextId, data |-> dataset.data, config |-> ConfigOf(state)]
  IN /\ workers' = ws1
     /\ workerRef' = ref1
     /\ outbox' = ob1
     /\ lastDeps' = Deps(dataset, state)
     /\ IF post
        THEN /\ state' = SetProcessingReducer(st1, TRUE)
             /\ inbox' = IF ws1[ref1] = "live"
                         THEN [ib1 EXCEPT ![ref1] = Append(@, req)]
                         ELSE ib1
             /\ lostPosts' = IF ws1[ref1] = "live" THEN lostPosts ELSE lostPosts + 1
             /\ nextId' = nextId + 1
             /\ sent' = Append(sent, [data |-> dataset.data, config |-> ConfigOf(state),
                                      worker |-> ref1])
        ELSE /\ state' = st1
             /\ inbox' = ib1
             /\ UNCHANGED <<lostPosts, nextId, sent>>

\* A render whose effects have not run yet.
EffectsPending ==
  view = "mounted" /\ (NeedsInit(dataset, state) \/ Deps(dataset, state) /= lastDeps)

\* The view mounts: first run of the effects.
Mount ==
  /\ view = "unmounted"
  /\ view' = "mounted"
  /\ EffectsFlush(TRUE)
  /\ UNCHANGED <<dataset, chartData, handledLog, postLog, received, aggVars,
                 sumVars, ctxVars, qVars, ovVars, chartVars>>

\* A render of the mounted view followed by the effects whose dependencies
\* changed.
Commit ==
  /\ view = "mounted"
  /\ EffectsPending \/ MemoizedCallbacksChange
  /\ EffectsFlush(MemoizedCallbacksChange)
  /\ UNCHANGED <<view, dataset, chartData, handledLog, postLog, received, aggVars,
                 sumVars, ctxVars, qVars, ovVars, chartVars>>

\* The view is discarded: cleanup of the worker effect.
Unmount ==
  /\ view = "mounted"
  /\ view' = "discarded"
  /\ workers' = TerminateWorker(workers, workerRef)
  /\ inbox' = IF workerRef /= 0 THEN [inbox EXCEPT ![workerRef] = <<>>] ELSE inbox
  /\ outbox' = LET FromOther(m) == m.worker /= workerRef IN SelectSeq(outbox, FromOther)
  /\ UNCHANGED <<dataset, state, chartData, workerRef, lastDeps, nextId, sent,
                 handledLog, postLog, received, lostPosts, aggVars,
                 sumVars, ctxVars, qVars, ovVars, chartVars>>

\* The worker's event loop delivers one queued request to self.onmessage,
\* which runs to completion.
WorkerOnMessage ==
  \E w \in 1..Len(workers) :
    /\ workers[w] = "live"
    /\ inbox[w] /= <<>>
    /\ LET i == TakeIndex(inbox[w])
           req == inbox[w][i]
           posts == OnMessagePosts(EventData(req))
       IN /\ inbox' = [inbox EXCEPT ![w] = RemoveAt(@, i)]
          /\ outbox' = outbox \o
               [k \in 1..Len(posts) |->
                  [id |-> req.id, worker |-> w, status |-> posts[k].status,
                   data |-> posts[k].data, error |-> posts[k].error]]
          /\ handledLog' = Append(handledLog, req.id)
          /\ postLog' = postLog \o [k \in 1..Len(posts) |-> req.id]
    /\ UNCHANGED <<view, dataset, state, chartData, workerRef, workers, lastDeps,
                   nextId, sent, received, lostPosts, aggVars,
                 sumVars, ctxVars, qVars, ovVars, chartVars>>

\* workerRef.current.onmessage in the view.
ViewOnMessage ==
  /\ view = "mounted"
  /\ outbox /= <<>>
  /\ LET msg == Head(outbox)
     IN /\ chartData' = IF AppliesData(msg) THEN msg.data ELSE chartData
        /\ state' = SetProcessingReducer(state, ProcessingOnResponse(msg))
        /\ received' = Append(received, msg)
  /\ outbox' = Tail(outbox)
  /\ UNCHANGED <<view, dataset, workerRef, workers, inbox, lastDeps, nextId, sent,
                 handledLog, postLog, lostPosts, aggVars,
                 sumVars, ctxVars, qVars, ovVars, chartVars>>

\* Datasets the context hands to the view.
PoisonRows == <<Row(Str("A"), Num(10)), Row(Str("B"), BadObj)>>
ViewData == {ArrayData(SampleRows), ArrayData(PoisonRows), ObjectData, NoData}

\* The context replaces the dataset (setDataset, forceDatasetUpdate, upload);
\* the view renders and runs its effects before the next change.
SetDataset ==
  /\ view /= "discarded"
  /\ ~EffectsPending
  /\ dataset.ver < MaxLoads
  /\ nextId <= MaxRequests
  /\ \E d \in ViewData : dataset' = [ver |-> dataset.ver + 1, data |-> d]
  /\ UNCHANGED <<view, state, chartData, workerRef, workers, inbox, outbox, lastDeps,
                 nextId, sent, handledLog, postLog, received, lostPosts, aggVars,
                 sumVars, ctxVars, qVars, ovVars, chartVars>>

UserChange(st) ==
  /\ view = "mounted"
  /\ ~EffectsPending
  /\ nextId <= MaxRequests
  /\ state' = st
  /\ UNCHANGED <<view, dataset, chartData, workerRef, workers, inbox, outbox, lastDeps,
                 nextId, sent, handledLog, postLog, received, lostPosts, aggVars,
                 sumVars, ctxVars, qVars, ovVars, chartVars>>

\* dispatch({ type: "SET_AXIS", ... })
SetAxis ==
  \E axis \in {"x", "y"}, value \in {"region", "sales"} :
    UserChange(SetAxisReducer(state, axis, value))

\* dispatch({ type: "SET_AGGREGATION", ... })
SetAggregation ==
  \E a \in {"sum", "average"} : UserChange(SetAggregationReducer(state, a))

\* dispatch({ type: "SET_SORT", ... })
SetSort ==
  \E payload \in {<<"x", "asc">>, <<"y", "desc">>} :
    UserChange(SetSortReducer(state, payload[1], payload[2]))

AggIdle ==
  /\ aggIn = [data |-> NoData, config |-> ConfigOf(InitialState)]
  /\ aggOut = <<>>
  /\ aggPre = <<>>
  /\ aggPc = "idle"

Init == ViewInit /\ AggIdle /\ SumIdle /\ CtxIdle /\ QIdle /\ OvIdle /\ ChartIdle

Next ==
  \/ Mount
  \/ Commit
  \/ Unmount
  \/ WorkerOnMessage
  \/ ViewOnMessage
  \/ SetDataset
  \/ SetAxis
  \/ SetAggregation
  \/ SetSort

Spec == Init /\ [][Next]_vars

(***************************************************************************)
(* Properties of the handler run on its own (SpecAgg).                     *)
(***************************************************************************)
AggDone == aggPc = "done"
AggSucceeded == aggPc = "done" /\ Len(aggOut) >= 1 /\ aggOut[1].status = "success"
AggRowsIn == aggIn.data.rows

\* The group key of a row: the string form of its key-column value, a
\* missing value reading as "Unknown".
KeyOf(row) == String(OrUnknown(Cell(row, aggIn.config.xAxis)))
DistinctKeys == {KeyOf(AggRowsIn[i]) : i \in 1..Len(AggRowsIn)}
Members(name) == {i \in 1..Len(AggRowsIn) : KeyOf(AggRowsIn[i]) = name}

\* The numeric reading of a value cell: a number or a numeric string is its
\* value, anything else is 0.
CoercedValue(v) ==
  IF v.t = "num" \/ (v.t = "str" /\ v.n >= 0) THEN v.n ELSE 0

RECURSIVE SumCoerced(_)
SumCoerced(I) ==
  IF I = {} THEN 0
  ELSE LET i == CHOOSE k \in I : TRUE
       IN CoercedValue(Cell(AggRowsIn[i], aggIn.config.yAxis)) + SumCoerced(I \ {i})

RECURSIVE SumSizes(_, _, _)
SumSizes(pts, lo, hi) ==
  IF lo > hi THEN 0
  ELSE IF lo = hi THEN pts[lo].size
  ELSE LET mid == (lo + hi) \div 2
       IN SumSizes(pts, lo, mid) + SumSizes(pts, mid + 1, hi)

WellFormedResponse(m) ==
  \/ m.status = "success" /\ m.error = ""
  \/ m.status = "error" /\ m.error /= "" /\ m.data = <<>>

\* C2: for every request the worker receives (well-formed, malformed or one
\* whose computation throws) the handler posts exactly one message, and that
\* message is a success carrying data or an error carrying a text.
C2_ExactlyOneResponse ==
  AggDone => Len(aggOut) = 1 /\ WellFormedResponse(aggOut[1])

\* A computation that threw was answered by one error message.
C2_Witness ==
  /\ AggDone
  /\ IsArray(aggIn.data)
  /\ Len(aggOut) = 1
  /\ aggOut[1].status = "error"

\* C8: a successful aggregation has at most 1000 points and at most as many
\* points as there are distinct group keys among the rows.
C8_BoundedOutput ==
  AggSucceeded =>
    /\ Len(aggOut[1].data) <= ResultCap
    /\ Len(aggOut[1].data) <= Cardinality(DistinctKeys)

\* More than 1000 distinct keys were aggregated and the cap cut the result.
C8_Witness ==
  /\ AggSucceeded
  /\ Cardinality(DistinctKeys) > ResultCap
  /\ Len(aggOut[1].data) = ResultCap

\* C9: before the slice there is exactly one point per distinct group key,
\* each point's size is the number of rows with that key, and with at most
\* 1000 groups the sizes of the result sum to the number of rows.
C9_OnePointPerKey ==
  AggSucceeded =>
    /\ Len(aggPre) = Cardinality(DistinctKeys)
    /\ {aggPre[j].name : j \in 1..Len(aggPre)} = DistinctKeys
    /\ \A j \in 1..Len(aggPre) : aggPre[j].size = Cardinality(Members(aggPre[j].name))
    /\ Cardinality(DistinctKeys) <= ResultCap
         => SumSizes(aggOut[1].data, 1, Len(aggOut[1].data)) = Len(AggRowsIn)

\* Two rows whose key cells differ (the number 1 and the string "1") fell
\* into one group.
C9_Witness ==
  /\ AggSucceeded
  /\ Len(AggRowsIn) = 2
  /\ AggRowsIn[1].region /= AggRowsIn[2].region
  /\ Len(aggPre) = 1
  /\ aggPre[1].size = 2

\* C10: in sum mode each group's value is the sum over its member rows of the
\* numeric reading of the value column, a non-numeric value counting 0, and
\* every member row, numeric or not, counts 1 in the size.
C10_SumMode ==
  AggSucceeded /\ OrDefault(aggIn.config.aggregation, "sum") = "sum" =>
    \A j \in 1..Len(aggPre) :
      /\ aggPre[j].value = Rat(SumCoerced(Members(aggPre[j].name)), 1)
      /\ aggPre[j].size = Cardinality(Members(aggPre[j].name))
      /\ aggPre[j].size >= 1

\* A group of a numeric and a non-numeric row: value 10, size 2.
C10_Witness ==
  /\ AggSucceeded
  /\ aggIn.config.aggregation = "sum"
  /\ Len(AggRowsIn) = 2
  /\ AggRowsIn[1].sales = Str("N/A")
  /\ AggRowsIn[2].sales = Num(10)
  /\ Len(aggPre) = 1
  /\ aggPre[1].value = Rat(10, 1)
  /\ aggPre[1].size = 2

AggData == aggOut[1].data
AggSortKey == OrDefault(aggIn.config.sortKey, "y")
AggSortDirection == OrDefault(aggIn.config.sortDirection, "desc")
MinOf(S) == CHOOSE m \in S : \A k \in S : m <= k

\* The row at which the group called name is first met.
FirstSeen(name) == MinOf(Members(name))

\* C11: in average mode each group's value is the sum of the numeric readings
\* of its k member rows divided by k and its size is k; the documented
\* dataset gives A with value 15 and size 2, then B with value 5 and size 1.
C11_AverageMode ==
  /\ AggSucceeded /\ OrDefault(aggIn.config.aggregation, "sum") = "average" =>
       \A j \in 1..Len(aggPre) :
         LET k == Cardinality(Members(aggPre[j].name))
         IN /\ k >= 1
            /\ aggPre[j].size = k
            /\ aggPre[j].value = Rat(SumCoerced(Members(aggPre[j].name)), k)
  /\ /\ AggDone
     /\ aggIn.data = ArrayData(SampleRows)
     /\ aggIn.config.aggregation = "average"
     /\ aggIn.config.sortKey = "y"
     /\ aggIn.config.sortDirection = "desc"
     => /\ Len(aggOut) = 1
        /\ aggOut[1].status = "success"
        /\ AggData = <<[name |-> Str("A"), value |-> Rat(15, 1), size |-> 2],
                       [name |-> Str("B"), value |-> Rat(5, 1), size |-> 1]>>

\* The documented dataset was averaged: a group of two rows has value 15.
C11_Witness ==
  /\ AggSucceeded
  /\ aggIn.data = ArrayData(SampleRows)
  /\ aggIn.config.aggregation = "average"
  /\ aggIn.config.sortKey = "y"
  /\ aggIn.config.sortDirection = "desc"
  /\ Len(AggData) = 2
  /\ AggData[1].size = 2
  /\ AggData[1].value = Rat(15, 1)

\* C12: sorted by value, descending, the output is non-increasing in value
\* and points of equal value stand in the order in which their keys were
\* first met in the rows.
C12_StableByEncounter ==
  AggSucceeded /\ AggSortKey = "y" /\ AggSortDirection = "desc" =>
    \A j \in 1..(Len(AggData) - 1) :
      /\ ValueDiff(AggData[j].value, AggData[j + 1].value) >= 0
      /\ ValueDiff(AggData[j].value, AggData[j + 1].value) = 0
           => FirstSeen(AggData[j].name) < FirstSeen(AggData[j + 1].name)

Sorted(pts) ==
  \A j \in 1..(Len(pts) - 1) :
    IF AggSortKey = "y"
    THEN IF AggSortDirection = "asc"
         THEN ValueDiff(pts[j].value, pts[j + 1].value) <= 0
         ELSE ValueDiff(pts[j].value, pts[j + 1].value) >= 0
    ELSE IF AggSortDirection = "asc"
         THEN LocaleCompare(pts[j].name, pts[j + 1].name) <= 0
         ELSE LocaleCompare(pts[j].name, pts[j + 1].name) >= 0

\* C13: the result is the first 1000 points of the sorted list of all the
\* groups: the list before the cut holds every group, is in the active
\* order, and the result is its prefix.
C13_CapAfterSort ==
  AggSucceeded =>
    /\ Len(aggPre) = Cardinality(DistinctKeys)
    /\ Sorted(aggPre)
    /\ Len(AggData) = IF Len(aggPre) <= ResultCap THEN Len(aggPre) ELSE ResultCap
    /\ \A j \in 1..Len(AggData) : AggData[j] = aggPre[j]

\* More than 1000 groups were sorted and the last of them was cut.
C13_Witness ==
  /\ AggSucceeded
  /\ Len(aggPre) = ResultCap + 1
  /\ Len(AggData) = ResultCap
  /\ ValueDiff(aggPre[1].value, aggPre[ResultCap + 1].value) /= 0

\* A key cell that is null, undefined or absent, or the empty string.
MissingKey(v) == v.t \in {"null", "undef"} \/ v = Str("")
MissingKeyRows ==
  {i \in 1..Len(AggRowsIn) : MissingKey(Cell(AggRowsIn[i], aggIn.config.xAxis))}

\* C14: every row whose key-column value is missing (null, undefined, absent
\* or the empty string) is counted in the point named "Unknown".
C14_MissingIsUnknown ==
  AggSucceeded /\ MissingKeyRows /= {} =>
    \E j \in 1..Len(aggPre) :
      /\ aggPre[j].name = Str("Unknown")
      /\ aggPre[j].size >= Cardinality(MissingKeyRows)

(***************************************************************************)
(* Properties of the dispatch boundary (Spec).                             *)
(***************************************************************************)
Dispatched == 1..(nextId - 1)
ReceivedIds == {received[k].id : k \in 1..Len(received)}
AllAnswered == nextId > 1 /\ Dispatched \subseteq ReceivedIds

\* What the worker answers to request i, from what the request was
\* dispatched with.
ExpectedResponse(i) ==
  OnMessagePosts([data |-> sent[i].data, config |-> sent[i].config])[1]

Succeeding == {i \in Dispatched : ExpectedResponse(i).status = "success"}
Max(S) == CHOOSE m \in S : \A k \in S : k <= m

\* C1 as stated: once every dispatched request has been answered, chartData
\* is the result computed for the most recently dispatched request.
C1_LastRequestWins ==
  AllAnswered =>
    /\ ExpectedResponse(nextId - 1).status = "success"
    /\ chartData = ExpectedResponse(nextId - 1).data

\* C1 amended: responses are applied in dispatch order, and once every
\* dispatched request has been answered chartData is the result of the most
\* recently dispatched request that succeeded, or the initial empty set when
\* none did.
C1_LastSuccessWins ==
  /\ \A j, k \in 1..Len(received) : j < k => received[j].id < received[k].id
  /\ AllAnswered =>
       chartData = IF Succeeding = {} THEN <<>>
                   ELSE ExpectedResponse(Max(Succeeding)).data

\* Two requests answered, the older with a result and the newer with an
\* error: the older result stays applied.
C1_Witness ==
  /\ AllAnswered
  /\ nextId - 1 >= 2
  /\ ExpectedResponse(nextId - 1).status = "error"
  /\ Succeeding /= {}
  /\ chartData /= <<>>

ErrorReceivedStep ==
  /\ Len(received') = Len(received) + 1
  /\ received'[Len(received')].status = "error"

FailsAtWorker(i) ==
  \/ ~IsArray(sent[i].data)
  \/ Groups(sent[i].data.rows, sent[i].config.xAxis, sent[i].config.yAxis).threw

\* C3: a request whose data is not an array or whose aggregation throws is
\* answered by an error response, and receiving an error response leaves
\* chartData unchanged.
C3_ErrorKeepsResult ==
  /\ [](\A k \in 1..Len(outbox) :
          FailsAtWorker(outbox[k].id) => outbox[k].status = "error")
  /\ [][ErrorReceivedStep => chartData' = chartData]_vars

\* An error response was received while a result was applied.
C3_Witness ==
  /\ received /= <<>>
  /\ received[Len(received)].status = "error"
  /\ chartData /= <<>>

\* C4: a dispatch sets the processing indicator, and every received response,
\* success or error and whichever request it answers, clears it, also while
\* other requests are in flight.
C4_ProcessingIndicator ==
  /\ [][nextId' = nextId + 1 => state'.isProcessing]_vars
  /\ [][Len(received') = Len(received) + 1 => ~state'.isProcessing]_vars

\* The indicator is off after an error response although a later request is
\* still unanswered.
C4_Witness ==
  /\ view = "mounted"
  /\ received /= <<>>
  /\ received[Len(received)].status = "error"
  /\ ~state.isProcessing
  /\ Len(received) < nextId - 1
  /\ Len(inbox[workerRef]) + Len(outbox) >= 1

LiveWorkers == {w \in 1..Len(workers) : workers[w] = "live"}

\* C5: the view creates one worker, when it mounts; at most one worker is
\* live; every worker is terminated once the view is discarded; no request
\* is posted to a terminated worker.
C5_OneScopedWorker ==
  /\ Cardinality(LiveWorkers) <= 1
  /\ Len(workers) = IF view = "unmounted" THEN 0 ELSE 1
  /\ view = "mounted" => workerRef \in LiveWorkers
  /\ view = "discarded" => LiveWorkers = {}
  /\ lostPosts = 0

\* The view was discarded after it had dispatched requests.
C5_Witness ==
  /\ view = "discarded"
  /\ workers = <<"terminated">>
  /\ nextId > 1

\* C6: the worker handles its requests one at a time in arrival order, and
\* the response to a request is posted before a later request is handled:
\* the responses are posted in the order of the requests.
C6_WorkerInOrder ==
  /\ \A k \in 1..Len(handledLog) : handledLog[k] = k
  /\ postLog = handledLog
  /\ \A j, k \in 1..Len(outbox) : j < k => outbox[j].id < outbox[k].id

\* One request has been handled while a later one waits in the queue.
C6_Witness ==
  /\ Len(handledLog) = 1
  /\ workerRef /= 0
  /\ Len(inbox[workerRef]) >= 1

SameAsExpected(m) ==
  LET e == ExpectedResponse(m.id)
  IN m.status = e.status /\ m.data = e.data /\ m.error = e.error

\* C7: every response is the one determined by the rows and the configuration
\* the request was dispatched with, whatever happened to the dataset and the
\* chart state since.
C7_ResponseOfPayload ==
  /\ \A k \in 1..Len(outbox) : SameAsExpected(outbox[k])
  /\ \A k \in 1..Len(received) : SameAsExpected(received[k])

\* A response is in flight for a request whose dataset and configuration
\* have both been replaced since it was dispatched.
C7_Witness ==
  /\ outbox /= <<>>
  /\ sent[outbox[1].id].data /= dataset.data
  /\ sent[outbox[1].id].config /= ConfigOf(state)

(***************************************************************************)
(* DataContext.tsx: calculateMetricsFromData.                              *)
(* A row object is the sequence of its own properties, <<key, value>>, in  *)
(* insertion order; an absent key reads as undefined.  A JSON text is the  *)
(* sequence of the members it spells out.                                  *)
(***************************************************************************)
NullDataset == [null |-> TRUE, id |-> 0, hasColumns |-> FALSE, columns |-> <<>>,
                hasData |-> FALSE, data |-> <<>>, forced |-> FALSE]
DatasetOf(id, columns, data) ==
  [null |-> FALSE, id |-> id, hasColumns |-> TRUE, columns |-> columns,
   hasData |-> TRUE, data |-> data, forced |-> FALSE]

\* The label of size bytes: whole bytes, or hundredths of the unit.
MemoryLabel(size) ==
  IF size < 1024 THEN [amount |-> size, unit |-> "B"]
  ELSE IF size < 1024 * 1024
    THEN [amount |-> (200 * size + 1024) \div 2048, unit |-> "KB"]
    ELSE [amount |-> (200 * size + 1024 * 1024) \div (2048 * 1024), unit |-> "MB"]

NullSummary == [null |-> TRUE, totalRows |-> 0, totalColumns |-> 0,
                missingValues |-> 0, duplicates |-> 0, memoryUsage |-> MemoryLabel(0)]
SummaryOf(rows, cols, missing, dups, memory) ==
  [null |-> FALSE, totalRows |-> rows, totalColumns |-> cols,
   missingValues |-> missing, duplicates |-> dups, memoryUsage |-> memory]

\* row[colName]
HasKey(row, key) == \E i \in 1..Len(row) : row[i][1] = key
RowGet(row, key) ==
  IF HasKey(row, key)
  THEN row[CHOOSE i \in 1..Len(row) : row[i][1] = key][2]
  ELSE Undefined

\* A test that takes the text "null" for a value.
IsMissingButNullText(value) ==
  value = Null \/ value = Undefined \/ value = Str("")

\* value === null || value === undefined || value === '' || value === 'null'
IsMissing(value) ==
  value = Null \/ value = Undefined \/ value = Str("") \/ value = Str("null")

\* A rowData that keeps the key order of the row it is read from.
RowDataKeyOrder(row, columnNames) ==
  SelectSeq(row, LAMBDA p : \E j \in 1..Len(columnNames) : columnNames[j] = p[1])

\* rowData: one property per column name, in the order of columnNames.
RowData(row, columnNames) ==
  [j \in 1..Len(columnNames) |-> <<columnNames[j], RowGet(row, columnNames[j])>>]

\* JSON.stringify(obj): members with an undefined value are left out.
JsonStringify(obj) == SelectSeq(obj, LAMBDA p : p[2] /= Undefined)

\* Number of bytes of the JSON text of a value, a row, an array of rows.
JsonValueLen(v) ==
  IF v.t = "num" THEN Len(Digits(v.n))
  ELSE IF v.t = "null" THEN 4
  ELSE IF v.n >= 0 THEN Len(Digits(v.n)) + 2
  ELSE Len(v.s) + 2

RECURSIVE SumLens(_, _)
SumLens(lens, i) == IF i > Len(lens) THEN 0 ELSE lens[i] + SumLens(lens, i + 1)

\* "[" items joined by "," "]"
JoinedLen(lens) ==
  2 + SumLens(lens, 1) + (IF Len(lens) > 0 THEN Len(lens) - 1 ELSE 0)

JsonRowLen(row) ==
  LET members == JsonStringify(row)
  IN JoinedLen([j \in 1..Len(members) |->
                  Len(members[j][1]) + 3 + JsonValueLen(members[j][2])])

JsonDataLen(data) == JoinedLen([i \in 1..Len(data) |-> JsonRowLen(data[i])])

\* dataset.data.length - rowHashes.size
Duplicates(data, rowHashes) == Len(data) - Cardinality(rowHashes)

\* One pass of "for (const row of dataset.data)".
MetricsStep(acc, row, columnNames) ==
  LET missing == {j \in 1..Len(columnNames) : IsMissing(RowGet(row, columnNames[j]))}
      rowHasAllNulls == Cardinality(missing) = Len(columnNames)
      rowData == RowData(row, columnNames)
  IN [missingValues |-> acc.missingValues + Cardinality(missing),
      rowHashes |-> IF rowHasAllNulls THEN acc.rowHashes
                    ELSE acc.rowHashes \cup {JsonStringify(rowData)},
      rowValues |-> IF rowHasAllNulls THEN acc.rowValues
                    ELSE Append(acc.rowValues, rowData)]

RECURSIVE MetricsLoop(_, _, _, _)
MetricsLoop(data, columnNames, i, acc) ==
  IF i > Len(data) THEN acc
  ELSE MetricsLoop(data, columnNames, i + 1, MetricsStep(acc, data[i], columnNames))

calculateMetricsFromData(ds) ==
  IF ds.null \/ ~ds.hasData \/ ~ds.hasColumns THEN NullSummary
  ELSE IF Len(ds.data) = 0
    THEN SummaryOf(0, Len(ds.columns), 0, 0, MemoryLabel(0))
    ELSE LET acc == MetricsLoop(ds.data, ds.columns, 1,
                                [missingValues |-> 0, rowHashes |-> {}, rowValues |-> <<>>])
         IN SummaryOf(Len(ds.data), Len(ds.columns), acc.missingValues,
                      Duplicates(ds.data, acc.rowHashes),
                      MemoryLabel(JsonDataLen(ds.data)))

(***************************************************************************)
(* calculateMetricsFromData run on its own, on a dataset and on a          *)
(* rearrangement of it.                                                    *)
(***************************************************************************)
RegionCells == {<<<<"region", Str("A")>>>>, <<<<"region", Null>>>>,
                <<<<"region", Str("")>>>>, <<>>}
SalesCells == {<<<<"sales", Num(1)>>>>, <<<<"sales", Str("null")>>>>,
               <<<<"sales", Undefined>>>>}
SumRows == {r \o v : r \in RegionCells, v \in SalesCells}
SumColumnLists == {<<>>, <<"sales">>, Columns}

\* Two identical rows and a row whose every value is missing.
ScenarioData ==
  << <<<<"region", Str("A")>>, <<"sales", Num(1)>>>>,
     <<<<"region", Str("A")>>, <<"sales", Num(1)>>>>,
     <<<<"region", Null>>, <<"sales", Str("null")>>>> >>

SumInputs ==
  {NullDataset,
   [DatasetOf(1, Columns, <<>>) EXCEPT !.hasData = FALSE],
   [DatasetOf(1, <<>>, <<>>) EXCEPT !.hasColumns = FALSE],
   DatasetOf(1, Columns, ScenarioData)}
    \cup {DatasetOf(1, cols, data) :
            cols \in SumColumnLists, data \in SeqsUpTo(SumRows, MaxRows)}

\* The same properties in every insertion order.
KeyOrders(row) ==
  {[i \in 1..Len(row) |-> row[p[i]]] : p \in Permutations(1..Len(row))}

RECURSIVE Choices(_, _)
Choices(sets, i) ==
  IF i > Len(sets) THEN {<<>>}
  ELSE {<<e>> \o rest : e \in sets[i], rest \in Choices(sets, i + 1)}

\* The same rows in every order, each with its keys in every order.
Rearrangements(data) ==
  UNION {Choices([i \in 1..Len(data) |-> KeyOrders(data[p[i]])], 1) :
           p \in Permutations(1..Len(data))}

InitSum ==
  /\ ViewInit
  /\ AggIdle
  /\ CtxIdle
  /\ QIdle
  /\ OvIdle
  /\ sumIn \in SumInputs
  /\ sumAlt \in {[sumIn EXCEPT !.data = d] : d \in Rearrangements(sumIn.data)}
  /\ sumOut = <<>>
  /\ sumPc = "ready"
  /\ ChartIdle

SumRun ==
  /\ sumPc = "ready"
  /\ sumOut' = [main |-> calculateMetricsFromData(sumIn),
                alt |-> calculateMetricsFromData(sumAlt)]
  /\ sumPc' = "done"
  /\ UNCHANGED <<sumIn, sumAlt, viewVars, aggVars, ctxVars, qVars, ovVars, chartVars>>

NextSum == SumRun

SpecSum == InitSum /\ [][NextSum]_vars

(***************************************************************************)
(* Properties of calculateMetricsFromData (SpecSum).                       *)
(***************************************************************************)
SumDone == sumPc = "done" /\ ~sumOut.main.null
SumCols == {sumIn.columns[j] : j \in 1..Len(sumIn.columns)}

\* Null, undefined, the empty string or the text "null".
MissingCell(v) ==
  v.t \in {"null", "undef"} \/ (v.t = "str" /\ v.n = -1 /\ v.s \in {"", "null"})

\* The values of a row under the declared columns, whatever its key order.
Content(row) == [c \in SumCols |-> RowGet(row, c)]
AllNull(row) == \A c \in SumCols : MissingCell(RowGet(row, c))
NotAllNull(data) == {i \in 1..Len(data) : ~AllNull(data[i])}

\* C15: the duplicate count is the number of rows that are not all-null less
\* the number of distinct contents of those rows, so that all-null rows add
\* nothing to it: two identical rows and one all-null row give 1.
C15_DuplicatesSkipAllNull ==
  SumDone =>
    /\ sumOut.main.duplicates =
         Cardinality(NotAllNull(sumIn.data))
           - Cardinality({Content(sumIn.data[i]) : i \in NotAllNull(sumIn.data)})
    /\ sumIn.data = ScenarioData => sumOut.main.duplicates = 1

\* C16: the duplicate count is the same for every order of the rows and
\* every order of the keys inside each row: rows of equal content under the
\* declared columns fall together whatever their key order.
C16_OrderIndependent ==
  sumPc = "done" =>
    /\ sumOut.alt.null = sumOut.main.null
    /\ sumOut.alt.duplicates = sumOut.main.duplicates
    /\ SumDone =>
         sumOut.alt.duplicates =
           Len(sumAlt.data)
             - Cardinality({Content(sumAlt.data[i]) : i \in NotAllNull(sumAlt.data)})

\* Two rows of equal content and different key order counted as one duplicate.
C16_Witness ==
  /\ SumDone
  /\ Len(sumAlt.data) = 2
  /\ sumAlt.data[1] /= sumAlt.data[2]
  /\ Content(sumAlt.data[1]) = Content(sumAlt.data[2])
  /\ sumAlt.data /= sumIn.data
  /\ sumOut.alt.duplicates = 1

MissingCells(data) ==
  {<<i, j>> \in (1..Len(data)) \X (1..Len(sumIn.columns)) :
     MissingCell(RowGet(data[i], sumIn.columns[j]))}

\* C17: missingValues is the number of (row, declared column) cells whose
\* value is null, undefined, the empty string or the text "null", each cell
\* counted once, and so at most totalRows * totalColumns.
C17_MissingBounded ==
  SumDone =>
    /\ sumOut.main.totalRows = Len(sumIn.data)
    /\ sumOut.main.totalColumns = Len(sumIn.columns)
    /\ sumOut.main.missingValues = Cardinality(MissingCells(sumIn.data))
    /\ sumOut.main.missingValues <= sumOut.main.totalRows * sumOut.main.totalColumns

\* Every kind of missing value, and a value that is present, were counted.
C17_Witness ==
  /\ SumDone
  /\ sumIn.columns = Columns
  /\ Len(sumIn.data) = 2
  /\ sumOut.main.missingValues = 3
  /\ \E i \in 1..2 : RowGet(sumIn.data[i], "sales") = Str("null")
  /\ \E i \in 1..2 : RowGet(sumIn.data[i], "region") = Str("")

(***************************************************************************)
(* DataContext.tsx: the DataProvider and its operations.                   *)
(***************************************************************************)
MaxCalls == 3

RowA == <<<<"region", Str("A")>>, <<"sales", Num(1)>>>>
CtxData == {<<>>, <<RowA>>, ScenarioData}
CtxDatasets == {DatasetOf(id, Columns, data) : id \in {1, 2}, data \in CtxData}

\* What POST /upload answers with: a dataset with or without its rows.
CtxUploads == CtxDatasets \cup {[DatasetOf(2, Columns, <<>>) EXCEPT !.hasData = FALSE]}

\* Summaries a caller or the server can hand over.
CtxSummaries == {calculateMetricsFromData(d) : d \in CtxDatasets}

NoUpload == [stage |-> "none", id |-> 0]

\* useState initial values.
CtxInitial ==
  [dataset |-> NullDataset, rawDataset |-> NullDataset, dataSummary |-> NullSummary,
   isLoading |-> FALSE, isInitialUpload |-> TRUE, updateCounter |-> 0,
   upload |-> NoUpload]

\* if (summary) setDataSummary(summary)
SetIfTruthy(old, summary) == IF summary.null THEN old ELSE summary

\* handleSetDataset(newDataset)
handleSetDataset(c, newDataset) ==
  [c EXCEPT
     !.isInitialUpload = IF ~newDataset.null THEN FALSE ELSE @,
     !.dataset = newDataset,
     !.rawDataset = IF c.rawDataset.null \/ newDataset.null \/ newDataset.forced
                    THEN newDataset ELSE @,
     !.dataSummary = IF newDataset.null THEN NullSummary
                     ELSE SetIfTruthy(@, calculateMetricsFromData(newDataset))]

\* updateCleanedData(cleanedData, columns, summary); columns and summary are
\* optional.
updateCleanedData(c, cleanedData, hasColumns, columns, summary) ==
  IF c.dataset.null THEN c
  ELSE LET processedColumns == IF hasColumns THEN columns ELSE c.dataset.columns
           updatedDataset == [c.dataset EXCEPT !.data = cleanedData, !.hasData = TRUE,
                                               !.columns = processedColumns,
                                               !.hasColumns = TRUE]
           newSummary == IF ~summary.null THEN summary
                         ELSE calculateMetricsFromData(updatedDataset)
       IN [c EXCEPT !.dataset = updatedDataset,
                    !.rawDataset = updatedDataset,
                    !.dataSummary = SetIfTruthy(@, newSummary),
                    !.updateCounter = @ + 1]

\* forceDatasetUpdate(newData)
forceDatasetUpdate(c, newData) ==
  IF c.dataset.null THEN c
  ELSE LET forcedDataset == [c.dataset EXCEPT !.data = newData, !.hasData = TRUE,
                                              !.forced = TRUE]
       IN [c EXCEPT !.dataset = forcedDataset,
                    !.rawDataset = forcedDataset,
                    !.dataSummary = SetIfTruthy(@, calculateMetricsFromData(forcedDataset)),
                    !.updateCounter = @ + 1]

Called == ctxCalls < MaxCalls /\ ctxCalls' = ctxCalls + 1
CtxFrame == UNCHANGED <<viewVars, aggVars, sumVars, qVars, ovVars, chartVars>>

\* setDataset(newDataset), null included.
CtxSetDataset ==
  /\ Called
  /\ \E newDataset \in CtxDatasets \cup {NullDataset} :
       ctx' = handleSetDataset(ctx, newDataset)
  /\ CtxFrame

CtxUpdateCleanedData ==
  /\ Called
  /\ \E cleanedData \in CtxData, hasColumns \in BOOLEAN,
        summary \in CtxSummaries \cup {NullSummary} :
       ctx' = updateCleanedData(ctx, cleanedData, hasColumns, <<"sales">>, summary)
  /\ CtxFrame

CtxForceDatasetUpdate ==
  /\ Called
  /\ \E newData \in CtxData : ctx' = forceDatasetUpdate(ctx, newData)
  /\ CtxFrame

\* uploadDataset up to its first await.
UploadStart ==
  /\ Called
  /\ ctx.upload.stage = "none"
  /\ ctx' = [ctx EXCEPT !.isLoading = TRUE, !.upload = [stage |-> "upload", id |-> 0]]
  /\ CtxFrame

\* POST /upload answered: the uploaded dataset is stored, or the call fails.
UploadResponse ==
  /\ ctx.upload.stage = "upload"
  /\ \/ \E uploaded \in CtxUploads :
          ctx' = [handleSetDataset(ctx, uploaded) EXCEPT
                    !.rawDataset = uploaded,
                    !.upload = [stage |-> "summary", id |-> uploaded.id]]
     \/ ctx' = [ctx EXCEPT !.isLoading = FALSE, !.upload = NoUpload]
  /\ UNCHANGED ctxCalls
  /\ CtxFrame

\* GET /summary/{id} answered: the server's summary is stored, or none is.
UploadSummaryResponse ==
  /\ ctx.upload.stage = "summary"
  /\ \/ \E summary \in CtxSummaries :
          ctx' = [ctx EXCEPT !.dataSummary = summary, !.isLoading = FALSE,
                             !.upload = NoUpload]
     \/ ctx' = [ctx EXCEPT !.isLoading = FALSE, !.upload = NoUpload]
  /\ UNCHANGED ctxCalls
  /\ CtxFrame

InitCtx ==
  /\ ViewInit
  /\ AggIdle
  /\ SumIdle
  /\ QIdle
  /\ OvIdle
  /\ ctx = CtxInitial
  /\ ctxCalls = 0
  /\ ChartIdle

NextCtx ==
  \/ CtxSetDataset
  \/ CtxUpdateCleanedData
  \/ CtxForceDatasetUpdate
  \/ UploadStart
  \/ UploadResponse
  \/ UploadSummaryResponse

SpecCtx == InitCtx /\ [][NextCtx]_vars

(***************************************************************************)
(* Properties of the DataProvider (SpecCtx).                               *)
(***************************************************************************)
\* C18: whenever the context holds a dataset and no operation is under way,
\* the stored summary is the one computed from the rows of that dataset.
C18_SummaryOfStoredDataset ==
  ctx /= <<>> /\ ~ctx.dataset.null /\ ctx.upload.stage = "none" =>
    ctx.dataSummary = calculateMetricsFromData(ctx.dataset)

(***************************************************************************)
(* Overview.tsx: computeQualityScore.                                      *)
(* A count of the summary is absent, NaN, an integer or an object that     *)
(* throws when it is read as a number; a number of the computation is NaN  *)
(* or a rational.                                                          *)
(***************************************************************************)
MaxCount == 3

Absent == [k |-> "absent", n |-> 0]
NaNCount == [k |-> "nan", n |-> 0]
BadCount == [k |-> "obj", n |-> 0]
Count(n) == [k |-> "num", n |-> n]

NaN == [nan |-> TRUE, num |-> 0, den |-> 1]
Real(num, den) == [nan |-> FALSE, num |-> Rat(num, den).num, den |-> Rat(num, den).den]

\* const { missingValues = 0, ... } = summary: the default stands in for undefined.
OrZero(c) == IF c.k = "absent" THEN Real(0, 1) ELSE IF c.k = "nan" THEN NaN ELSE Real(c.n, 1)

\* A test that lets zero through.
IsBelowZero(a) == ~a.nan /\ a.num < 0

\* a <= 0, a > 0: every comparison with NaN is false.
IsLeqZero(a) == ~a.nan /\ a.num <= 0
IsPositive(a) == ~a.nan /\ a.num > 0

Times(a, b) == IF a.nan \/ b.nan THEN NaN ELSE Real(a.num * b.num, a.den * b.den)
Plus(a, b) ==
  IF a.nan \/ b.nan THEN NaN ELSE Real(a.num * b.den + b.num * a.den, a.den * b.den)
Minus(a, b) == Plus(a, Times(Real(-1, 1), b))
\* a / b with b a positive number.
Over(a, b) == IF a.nan \/ b.nan THEN NaN ELSE Real(a.num * b.den, a.den * b.num)

Less(a, b) == a.num * b.den < b.num * a.den
\* Math.max, Math.min: NaN if either argument is NaN.
MathMax(a, b) == IF a.nan \/ b.nan THEN NaN ELSE IF Less(a, b) THEN b ELSE a
MathMin(a, b) == IF a.nan \/ b.nan THEN NaN ELSE IF Less(a, b) THEN a ELSE b

\* Math.round: the nearest integer, a half going up.
MathRound(a) == IF a.nan THEN NaN ELSE Real((2 * a.num + a.den) \div (2 * a.den), 1)

\* Math.min(1, Math.max(0, count / total)) * weight (weight in tenths)
Penalty(count, total, tenths) ==
  IF IsPositive(total)
  THEN Times(MathMin(Real(1, 1), MathMax(Real(0, 1), Over(count, total))), Real(tenths, 10))
  ELSE Real(0, 1)

\* A score that takes duplicates for a merit.
RawScoreDupBonus(missingPenalty, dupPenalty) ==
  Times(Real(100, 1), Minus(Real(1, 1), Minus(missingPenalty, dupPenalty)))

\* 100 * (1 - (missingPenalty + dupPenalty))
RawScore(missingPenalty, dupPenalty) ==
  Times(Real(100, 1), Minus(Real(1, 1), Plus(missingPenalty, dupPenalty)))

\* A last step that rounds and checks nothing.
FinishUnclamped(score) == MathRound(score)

\* Math.max(0, Math.min(100, Math.round(score))), and 0 if that is not finite.
Finish(score) ==
  LET clamped == MathMax(Real(0, 1), MathMin(Real(100, 1), MathRound(score)))
  IN IF clamped.nan THEN Real(0, 1) ELSE clamped

\* The try block: what it returns, or that a step of it threw.
Returns(value) == [threw |-> FALSE, value |-> value]
Throws == [threw |-> TRUE, value |-> NaN]
QualityBody(summary, ds) ==
  IF summary.null \/ ds.null \/ ~ds.columnsIsArray \/ ds.columns = 0
  THEN Returns(Real(0, 1))
  ELSE LET missingValues == OrZero(summary.missingValues)
           duplicates == OrZero(summary.duplicates)
           totalRows == OrZero(summary.totalRows)
           totalColumns == Real(ds.columns, 1)
       IN IF summary.totalRows = BadCount THEN Throws
          ELSE IF IsLeqZero(totalRows) \/ IsLeqZero(totalColumns) THEN Returns(Real(0, 1))
          ELSE LET totalCells == Times(totalRows, totalColumns)
                   missingPenalty == Penalty(missingValues, totalCells, 9)
                   dupPenalty == Penalty(duplicates, totalRows, 5)
               IN IF \/ IsPositive(totalCells) /\ summary.missingValues = BadCount
                     \/ IsPositive(totalRows) /\ summary.duplicates = BadCount
                  THEN Throws
                  ELSE Returns(Finish(RawScore(missingPenalty, dupPenalty)))

\* computeQualityScore(summary, dataset): the catch branch returns 0.
computeQualityScore(summary, ds) ==
  LET body == QualityBody(summary, ds)
  IN [raised |-> FALSE, value |-> IF body.threw THEN Real(0, 1) ELSE body.value]

(***************************************************************************)
(* computeQualityScore run on its own, on a summary and on a second        *)
(* summary of the same dataset.                                            *)
(***************************************************************************)
Counts(lo, hi) == {Absent, NaNCount, BadCount} \cup {Count(n) : n \in lo..hi}

QSummaries ==
  [null : {FALSE}, totalRows : Counts(-1, MaxCount), totalColumns : {Count(0), Count(2)},
   missingValues : Counts(-1, 2 * MaxCount + 1), duplicates : Counts(-1, MaxCount + 1)]
NoSummary == [null |-> TRUE, totalRows |-> Absent, totalColumns |-> Absent,
              missingValues |-> Absent, duplicates |-> Absent]

QDatasets ==
  {[null |-> TRUE, columnsIsArray |-> FALSE, columns |-> 0],
   [null |-> FALSE, columnsIsArray |-> FALSE, columns |-> 0]}
    \cup {[null |-> FALSE, columnsIsArray |-> TRUE, columns |-> n] : n \in 0..2}

\* The summaries that differ from s in missingValues only or in duplicates only.
Variants(s) ==
  IF s.null THEN {s}
  ELSE {[s EXCEPT !.missingValues = c] : c \in Counts(-1, 2 * MaxCount + 1)}
         \cup {[s EXCEPT !.duplicates = c] : c \in Counts(-1, MaxCount + 1)}

InitQ ==
  /\ ViewInit
  /\ AggIdle
  /\ SumIdle
  /\ CtxIdle
  /\ OvIdle
  /\ \E s \in QSummaries \cup {NoSummary}, d \in QDatasets :
       \E o \in Variants(s) : qIn = [summary |-> s, dataset |-> d, other |-> o]
  /\ qOut = <<>>
  /\ qPc = "ready"
  /\ ChartIdle

QRun ==
  /\ qPc = "ready"
  /\ qOut' = [score |-> computeQualityScore(qIn.summary, qIn.dataset),
              other |-> computeQualityScore(qIn.other, qIn.dataset)]
  /\ qPc' = "done"
  /\ UNCHANGED <<qIn, viewVars, aggVars, sumVars, ctxVars, ovVars, chartVars>>

NextQ == QRun

SpecQ == InitQ /\ [][NextQ]_vars

(***************************************************************************)
(* Properties of computeQualityScore (SpecQ).                              *)
(***************************************************************************)
IsScore(r) == ~r.raised /\ ~r.value.nan /\ r.value.den = 1 /\ r.value.num \in 0..100

\* C19: for every summary, absent, negative and inconsistent counts
\* included, and every dataset, the score returned is an integer from 0 to
\* 100 and no error is raised.
C19_ScoreInRange ==
  qPc = "done" => IsScore(qOut.score) /\ IsScore(qOut.other)

\* Inconsistent counts were scored: more missing values than cells and more
\* duplicates than rows, and a count that cannot be read as a number.
C19_Witness ==
  /\ qPc = "done"
  /\ qIn.summary.totalRows = Count(1)
  /\ qIn.dataset.columns = 1
  /\ qIn.summary.missingValues = Count(2 * MaxCount + 1)
  /\ qIn.summary.duplicates = Count(MaxCount + 1)
  /\ qIn.other.duplicates = BadCount
  /\ qOut.score.value = Real(0, 1)

\* A count as a number, for the counts that are numbers.
IsNumber(c) == c.k \in {"absent", "num"}
ValueOf(c) == IF c.k = "absent" THEN 0 ELSE c.n

\* C20: with totalRows, the column count and duplicates fixed, the score
\* never increases when missingValues increases; with totalRows, the column
\* count and missingValues fixed, it never increases when duplicates
\* increases.
C20_Monotone ==
  qPc = "done" /\ ~qIn.summary.null =>
    /\ /\ IsNumber(qIn.summary.missingValues) /\ IsNumber(qIn.other.missingValues)
       /\ ValueOf(qIn.summary.missingValues) <= ValueOf(qIn.other.missingValues)
       /\ qIn.summary.duplicates = qIn.other.duplicates
       => qOut.other.value.num <= qOut.score.value.num
    /\ /\ IsNumber(qIn.summary.duplicates) /\ IsNumber(qIn.other.duplicates)
       /\ ValueOf(qIn.summary.duplicates) <= ValueOf(qIn.other.duplicates)
       /\ qIn.summary.missingValues = qIn.other.missingValues
       => qOut.other.value.num <= qOut.score.value.num

\* More duplicates, all else the same, gave a strictly lower score.
C20_Witness ==
  /\ qPc = "done"
  /\ ~qIn.summary.null
  /\ qIn.summary.missingValues = qIn.other.missingValues
  /\ qIn.summary.duplicates = Count(0)
  /\ qIn.other.duplicates = Count(1)
  /\ qIn.summary.totalRows = Count(MaxCount)
  /\ qOut.other.value.num < qOut.score.value.num
  /\ qOut.other.value.num > 0

\* A count that is a number and at most 0.
NotPositive(c) == c.k = "num" /\ c.n <= 0
ZeroScore == [raised |-> FALSE, value |-> Real(0, 1)]

\* C21 as stated: the score is 0 whenever the summary is absent, the dataset
\* has zero columns, or the summary's totalRows or totalColumns is at most 0.
C21_ZeroOnSummaryCounts ==
  /\ qPc = "done"
  /\ \/ qIn.summary.null
     \/ ~qIn.dataset.null /\ qIn.dataset.columnsIsArray /\ qIn.dataset.columns = 0
     \/ NotPositive(qIn.summary.totalRows)
     \/ NotPositive(qIn.summary.totalColumns)
  => qOut.score = ZeroScore

\* C21: the score is 0 whenever the summary or the dataset is absent, the
\* dataset has no array of columns or an empty one, or the summary's
\* totalRows is absent or at most 0; the column count is the dataset's, and
\* a summary whose own totalColumns is 0 scores as any other.
C21_ZeroOnDatasetColumns ==
  qPc = "done" =>
    /\ \/ qIn.summary.null
       \/ qIn.dataset.null
       \/ ~qIn.dataset.columnsIsArray
       \/ qIn.dataset.columns = 0
       \/ NotPositive(qIn.summary.totalRows)
       \/ qIn.summary.totalRows = Absent
       => qOut.score = ZeroScore
    /\ /\ ~qIn.summary.null
       /\ ~qIn.dataset.null /\ qIn.dataset.columnsIsArray /\ qIn.dataset.columns > 0
       /\ qIn.summary.totalRows.k = "num" /\ qIn.summary.totalRows.n > 0
       /\ qIn.summary.missingValues = Count(0)
       /\ qIn.summary.duplicates = Count(0)
       => qOut.score.value = Real(100, 1)

\* A summary of zero rows was scored for a dataset that has columns.
C21_Witness ==
  /\ qPc = "done"
  /\ qIn.summary.totalRows = Count(0)
  /\ qIn.summary.missingValues = Count(0)
  /\ qIn.summary.duplicates = Count(0)
  /\ qIn.dataset.columns = 2
  /\ qOut.score = ZeroScore

(***************************************************************************)
(* Overview.tsx: pearson, buildCorrelation and the correlation memo.       *)
(* A coefficient is kept as its numerator and the square of its            *)
(* denominator, both rationals, so that no square root is taken.           *)
(***************************************************************************)
MinNumeric == 5
CorrSample == 50

\* isNumber(v)
isNumber(v) == v.t = "num"

\* isNumber(v) || (!Number.isNaN(Number(v)) && v !== null && v !== "")
NumLike(v) == isNumber(v) \/ (~Number(v).nan /\ v /= Null /\ v /= Str(""))

Prefix(s, n) == SubSeq(s, 1, IF Len(s) < n THEN Len(s) ELSE n)
ColumnOf(data, name) == [i \in 1..Len(data) |-> Cell(data[i], name)]

\* nums.length >= Math.max(5, Math.floor(sample.length * 0.6)) over the
\* first limit rows.
PassesSampling(data, name, limit) ==
  LET sample == Prefix(ColumnOf(data, name), limit)
      nums == SelectSeq(sample, NumLike)
      floor == (Len(sample) * 6) \div 10
  IN Len(nums) >= (IF floor > MinNumeric THEN floor ELSE MinNumeric)

\* data.map(r => r[name]).map(Number).filter(v => !Number.isNaN(v))
SeriesOf(data, name) ==
  LET nums == [i \in 1..Len(data) |-> Number(Cell(data[i], name))]
      kept == SelectSeq(nums, LAMBDA y : ~y.nan)
  IN [i \in 1..Len(kept) |-> kept[i].n]

ZeroCoefficient == [num |-> Rat(0, 1), den2 |-> Rat(1, 1)]

\* pearson(xs, ys), with every deviation scaled by n.
pearson(xs, ys) ==
  LET n == IF Len(xs) < Len(ys) THEN Len(xs) ELSE Len(ys)
      sx == SumLens(Prefix(xs, n), 1)
      sy == SumLens(Prefix(ys, n), 1)
      vx == [i \in 1..n |-> n * xs[i] - sx]
      vy == [i \in 1..n |-> n * ys[i] - sy]
      num == SumLens([i \in 1..n |-> vx[i] * vy[i]], 1)
      dx == SumLens([i \in 1..n |-> vx[i] * vx[i]], 1)
      dy == SumLens([i \in 1..n |-> vy[i] * vy[i]], 1)
  IN IF n = 0 THEN ZeroCoefficient
     ELSE [num |-> Rat(num, n * n),
           den2 |-> IF dx * dy = 0 THEN Rat(1, 1) ELSE Rat(dx * dy, n * n * n * n)]

\* A matrix whose entry pairs the full series of the row's column.
MatrixEntryUntruncated(xi, yj) ==
  IF Len(xi) > 0 /\ Len(yj) > 0
  THEN pearson(xi, SubSeq(yj, Len(yj) - (IF Len(xi) < Len(yj) THEN Len(xi) ELSE Len(yj)) + 1,
                           Len(yj)))
  ELSE ZeroCoefficient

\* matrix[i][j] = len ? pearson(xi.slice(0, len), yj.slice(0, len)) : 0
MatrixEntry(xi, yj) ==
  LET len == IF Len(xi) < Len(yj) THEN Len(xi) ELSE Len(yj)
  IN IF len > 0 THEN pearson(Prefix(xi, len), Prefix(yj, len)) ELSE ZeroCoefficient

\* A result emptied when fewer than two columns are eligible.
CorrelationResultAtLeastTwo(numericNames, matrix) ==
  IF Len(numericNames) < 2
  THEN [numericNames |-> <<>>, matrix |-> <<>>, shown |-> FALSE]
  ELSE [numericNames |-> numericNames, matrix |-> matrix, shown |-> TRUE]

\* return { numericNames, matrix }; the view draws the matrix when
\* numericNames.length >= 2.
CorrelationResult(numericNames, matrix) ==
  [numericNames |-> numericNames, matrix |-> matrix, shown |-> Len(numericNames) >= 2]

buildCorrelation(columns, data) ==
  LET numericNames == SelectSeq(columns, LAMBDA name : PassesSampling(data, name, CorrSample))
      n == Len(numericNames)
      matrix == [i \in 1..n |-> [j \in 1..n |->
                   MatrixEntry(SeriesOf(data, numericNames[i]),
                               SeriesOf(data, numericNames[j]))]]
  IN CorrelationResult(numericNames, matrix)

\* The correlation memo of the Overview.
CorrelationMemo(ds) ==
  IF ~ds.hasData \/ ~ds.hasColumns THEN CorrelationResult(<<>>, <<>>)
  ELSE buildCorrelation(ds.columns, ds.data)

(***************************************************************************)
(* The correlation memo run on its own.                                    *)
(***************************************************************************)
CorrCells == {Num(0), Num(1), Str("x")}
CorrLen == MinNumeric + 1

\* Columns of len cells of which at most k are not numbers.
CorrVectors(len, k) ==
  {v \in [1..len -> CorrCells] : Cardinality({i \in 1..len : v[i].t /= "num"}) <= k}

CorrInputs(len) ==
  {[hasData |-> FALSE, hasColumns |-> TRUE, columns |-> Columns, data |-> <<>>],
   [hasData |-> TRUE, hasColumns |-> TRUE, columns |-> Columns, data |-> <<>>]}
    \cup {[hasData |-> TRUE, hasColumns |-> TRUE, columns |-> Columns,
           data |-> [i \in 1..len |-> Row(a[i], b[i])]] :
            a \in CorrVectors(len, 2), b \in CorrVectors(len, 1)}

InitCorr ==
  /\ ViewInit
  /\ AggIdle
  /\ SumIdle
  /\ CtxIdle
  /\ QIdle
  /\ ovIn \in CorrInputs(CorrLen)
  /\ ovOut = <<>>
  /\ ovPc = "ready"
  /\ pv = <<>>
  /\ ChartIdle

CorrRun ==
  /\ ovPc = "ready"
  /\ ovOut' = CorrelationMemo(ovIn)
  /\ ovPc' = "done"
  /\ UNCHANGED <<ovIn, pv, viewVars, aggVars, sumVars, ctxVars, qVars, chartVars>>

NextCorr == CorrRun

SpecCorr == InitCorr /\ [][NextCorr]_vars

(***************************************************************************)
(* Properties of the correlation memo (SpecCorr).                          *)
(***************************************************************************)
Eligible == {c \in {"region", "sales"} : PassesSampling(ovIn.data, c, CorrSample)}
NonNaNCount(c) ==
  Cardinality({i \in 1..Len(ovIn.data) : ~Number(Cell(ovIn.data[i], c)).nan})

\* C22: the matrix is square over the eligible columns and symmetric, also
\* when two columns have different numbers of values that are not NaN.
C22_SquareSymmetric ==
  ovPc = "done" =>
    LET n == Len(ovOut.numericNames)
    IN /\ n = Cardinality(Eligible)
       /\ Len(ovOut.matrix) = n
       /\ \A i \in 1..n :
            /\ Len(ovOut.matrix[i]) = n
            /\ \A j \in 1..n : ovOut.matrix[i][j] = ovOut.matrix[j][i]

\* Two eligible columns with different numbers of non-NaN values and a
\* coefficient that is not 0.
C22_Witness ==
  /\ ovPc = "done"
  /\ Len(ovOut.numericNames) = 2
  /\ NonNaNCount("region") < NonNaNCount("sales")
  /\ ovOut.matrix[1][2].num.num /= 0
  /\ ovOut.matrix[1][2] = ovOut.matrix[2][1]

\* C23 as stated: with fewer than 2 eligible columns the result holds no
\* column name and no matrix entry.
C23_EmptyBelowTwo ==
  ovPc = "done" /\ Cardinality(Eligible) < 2 =>
    ovOut.numericNames = <<>> /\ ovOut.matrix = <<>>

\* C23: with no eligible column the result is empty; with exactly one it is
\* that column's name and a matrix of one entry; in both cases the view does
\* not draw the matrix.
C23_NotShownBelowTwo ==
  ovPc = "done" /\ Cardinality(Eligible) < 2 =>
    /\ ~ovOut.shown
    /\ Cardinality(Eligible) = 0 => ovOut.numericNames = <<>> /\ ovOut.matrix = <<>>
    /\ Cardinality(Eligible) = 1 =>
         /\ Len(ovOut.numericNames) = 1
         /\ ovOut.numericNames[1] \in Eligible
         /\ Len(ovOut.matrix) = 1
         /\ Len(ovOut.matrix[1]) = 1

\* One column of two was eligible.
C23_Witness ==
  /\ ovPc = "done"
  /\ Len(ovIn.data) = CorrLen
  /\ Eligible = {"sales"}
  /\ ovOut.numericNames = <<"sales">>
  /\ ~ovOut.shown

(***************************************************************************)
(* Overview.tsx: buildHistogram.  Values are integers; a bin bound is kept *)
(* in tenths, as toFixed(1) prints it.                                     *)
(***************************************************************************)
MaxValues == 3
MaxBins == 4
DefaultBins == 12

MinOfSeq(s) == CHOOSE m \in {s[i] : i \in 1..Len(s)} : \A i \in 1..Len(s) : m <= s[i]
MaxOfSeq(s) == CHOOSE m \in {s[i] : i \in 1..Len(s)} : \A i \in 1..Len(s) : m >= s[i]

\* (num / den).toFixed(1) in tenths, den > 0: the nearest tenth, a half
\* going away from zero.
ToFixed1(num, den) ==
  IF num >= 0 THEN (20 * num + den) \div (2 * den)
  ELSE -((20 * (-num) + den) \div (2 * den))

\* An index that is not held to the last bin.
HistIndexUnclamped(v, min, range, bins) == ((v - min) * bins) \div range

\* Math.min(bins - 1, Math.floor((v - min) / width)), width = range / bins
HistIndex(v, min, range, bins) ==
  LET floor == ((v - min) * bins) \div range
  IN IF bins - 1 < floor THEN bins - 1 ELSE floor

buildHistogram(values, bins) ==
  IF Len(values) = 0 THEN <<>>
  ELSE LET min == MinOfSeq(values)
           max == MaxOfSeq(values)
           range == IF max - min = 0 THEN 1 ELSE max - min
           counts == [i \in 1..bins |->
                        Cardinality({k \in 1..Len(values) :
                                       HistIndex(values[k], min, range, bins) = i - 1})]
       IN [i \in 1..bins |->
             [bin |-> <<ToFixed1(min * bins + (i - 1) * range, bins),
                        ToFixed1(min * bins + i * range, bins)>>,
              count |-> counts[i]]]

HistInputs ==
  [values : SeqsUpTo(-1..3, MaxValues), bins : (0..MaxBins) \cup {DefaultBins}]

InitHist ==
  /\ ViewInit
  /\ AggIdle
  /\ SumIdle
  /\ CtxIdle
  /\ QIdle
  /\ ovIn \in HistInputs
  /\ ovOut = <<>>
  /\ ovPc = "ready"
  /\ pv = <<>>
  /\ ChartIdle

HistRun ==
  /\ ovPc = "ready"
  /\ ovOut' = buildHistogram(ovIn.values, ovIn.bins)
  /\ ovPc' = "done"
  /\ UNCHANGED <<ovIn, pv, viewVars, aggVars, sumVars, ctxVars, qVars, chartVars>>

NextHist == HistRun

SpecHist == InitHist /\ [][NextHist]_vars

(***************************************************************************)
(* Properties of buildHistogram (SpecHist).                                *)
(***************************************************************************)
HistCounts == [i \in 1..Len(ovOut) |-> ovOut[i].count]
HistLow == MinOfSeq(ovIn.values)
HistHigh == MaxOfSeq(ovIn.values)

\* The bin, counted from 1, of a value by the rule of the claim: the floor
\* of (v - min) / width, width = (max - min) / bins or 1 / bins when all
\* values are equal, held to the last bin.
ExpectedBin(v) ==
  LET span == IF HistHigh = HistLow THEN 1 ELSE HistHigh - HistLow
      f == CHOOSE q \in 0..ovIn.bins : q * span <= (v - HistLow) * ovIn.bins
                                      /\ (q = ovIn.bins \/ (q + 1) * span > (v - HistLow) * ovIn.bins)
  IN IF f >= ovIn.bins THEN ovIn.bins ELSE f + 1

\* C24 as stated: for every list of values and every bin count the counts
\* sum to the number of values and the maximum value is in the last bin.
C24_EveryListAndBinCount ==
  ovPc = "done" =>
    /\ SumLens(HistCounts, 1) = Len(ovIn.values)
    /\ Len(ovIn.values) > 0 =>
         /\ Len(ovOut) > 0
         /\ ovOut[Len(ovOut)].count >=
              Cardinality({k \in 1..Len(ovIn.values) : ovIn.values[k] = HistHigh})

\* C24: for every non-empty list of values and every bin count of at least 1
\* there are as many bins as asked for, each value is counted in exactly the
\* bin floor((v - min) / width) held to the last bin, and the counts sum to
\* the number of values; the maximum is in the last bin when the values are
\* not all equal, and all the values are in the first bin when they are.  An
\* empty list or a bin count of 0 gives no bin.
C24_PositiveBinCount ==
  ovPc = "done" =>
    /\ Len(ovIn.values) = 0 \/ ovIn.bins = 0 => ovOut = <<>>
    /\ Len(ovIn.values) > 0 /\ ovIn.bins >= 1 =>
         /\ Len(ovOut) = ovIn.bins
         /\ \A i \in 1..ovIn.bins :
              ovOut[i].count =
                Cardinality({k \in 1..Len(ovIn.values) : ExpectedBin(ovIn.values[k]) = i})
         /\ SumLens(HistCounts, 1) = Len(ovIn.values)
         /\ HistHigh > HistLow =>
              ovOut[ovIn.bins].count >=
                Cardinality({k \in 1..Len(ovIn.values) : ovIn.values[k] = HistHigh})
         /\ HistHigh = HistLow => ovOut[1].count = Len(ovIn.values)

\* Values that are not all equal were put in more than one bin, the last
\* holding the maximum.
C24_Witness ==
  /\ ovPc = "done"
  /\ ovIn.bins = 3
  /\ Len(ovIn.values) = 3
  /\ HistHigh > HistLow
  /\ ovOut[3].count = 1
  /\ ovOut[2].count = 1
  /\ ovOut[1].count = 1

(***************************************************************************)
(* Overview.tsx: buildCategoryCounts.                                      *)
(***************************************************************************)
DefaultTopN == 15

\* A key that takes the empty string for a value.
CategoryKeyEmptyText(v) ==
  IF v = Null \/ v = Undefined THEN Str("(blank)") ELSE String(v)

\* v === null || v === undefined || v === "" ? "(blank)" : String(v)
CategoryKey(v) ==
  IF v = Null \/ v = Undefined \/ v = Str("") THEN Str("(blank)") ELSE String(v)

\* The keys of the Map, in the order in which they were first set.
RECURSIVE MapKeys(_, _, _)
MapKeys(values, i, keys) ==
  IF i > Len(values) THEN keys
  ELSE LET key == CategoryKey(values[i])
       IN MapKeys(values, i + 1,
                  IF \E j \in 1..Len(keys) : keys[j] = key THEN keys ELSE Append(keys, key))

\* arr.sort((a, b) => b.value - a.value): a stable sort.
SortByValueDesc(arr) ==
  LET Rank(i) == Cardinality({j \in 1..Len(arr) : arr[j].value > arr[i].value})
                   + Cardinality({j \in 1..(i - 1) : arr[j].value = arr[i].value}) + 1
  IN [p \in 1..Len(arr) |-> arr[CHOOSE i \in 1..Len(arr) : Rank(i) = p]]

buildCategoryCounts(values, topN) ==
  LET keys == MapKeys(values, 1, <<>>)
      arr == [j \in 1..Len(keys) |->
                [name |-> keys[j],
                 value |-> Cardinality({i \in 1..Len(values) : CategoryKey(values[i]) = keys[j]})]]
  IN Prefix(SortByValueDesc(arr), topN)

CatValues == {Null, Undefined, Str(""), Str("A"), Num(1), DigitStr(1)}
CatInputs == [values : SeqsUpTo(CatValues, MaxValues), topN : {0, 1, 2, DefaultTopN}]

InitCat ==
  /\ ViewInit
  /\ AggIdle
  /\ SumIdle
  /\ CtxIdle
  /\ QIdle
  /\ ovIn \in CatInputs
  /\ ovOut = <<>>
  /\ ovPc = "ready"
  /\ pv = <<>>
  /\ ChartIdle

CatRun ==
  /\ ovPc = "ready"
  /\ ovOut' = buildCategoryCounts(ovIn.values, ovIn.topN)
  /\ ovPc' = "done"
  /\ UNCHANGED <<ovIn, pv, viewVars, aggVars, sumVars, ctxVars, qVars, chartVars>>

NextCat == CatRun

SpecCat == InitCat /\ [][NextCat]_vars

(***************************************************************************)
(* Properties of buildCategoryCounts (SpecCat).                            *)
(***************************************************************************)
\* The key of a value by the rule of the claim.
ExpectedKey(v) ==
  IF v.t \in {"null", "undef"} \/ (v.t = "str" /\ v.n = -1 /\ v.s = "")
  THEN Str("(blank)")
  ELSE IF v.t = "num" THEN DigitStr(v.n) ELSE v
Tally(key) == Cardinality({i \in 1..Len(ovIn.values) : ExpectedKey(ovIn.values[i]) = key})
AllKeys == {ExpectedKey(ovIn.values[i]) : i \in 1..Len(ovIn.values)}

\* C25: every null, undefined or empty value is tallied under "(blank)" and
\* every other value under its string form; the entries are in
\* non-increasing order of count, are the N highest counts, and no key
\* appears twice.
C25_CategoryCounts ==
  ovPc = "done" =>
    /\ Len(ovOut) = (IF Cardinality(AllKeys) < ovIn.topN THEN Cardinality(AllKeys)
                     ELSE ovIn.topN)
    /\ \A j \in 1..Len(ovOut) :
         /\ ovOut[j].name \in AllKeys
         /\ ovOut[j].value = Tally(ovOut[j].name)
         /\ \A k \in 1..Len(ovOut) : ovOut[k].name = ovOut[j].name => k = j
         /\ j < Len(ovOut) => ovOut[j].value >= ovOut[j + 1].value
         /\ \A key \in AllKeys :
              (\A k \in 1..Len(ovOut) : ovOut[k].name /= key) => Tally(key) <= ovOut[j].value

\* Blank values of two kinds were tallied together and a lower count was cut.
C25_Witness ==
  /\ ovPc = "done"
  /\ ovIn.topN = 1
  /\ Len(ovIn.values) = 3
  /\ Cardinality(AllKeys) = 2
  /\ ovOut = <<[name |-> Str("(blank)"), value |-> 2]>>
  /\ \E i \in 1..3 : ovIn.values[i] = Str("")
  /\ \E i \in 1..3 : ovIn.values[i] = Null

(***************************************************************************)
(* Overview.tsx: pickQuickColumns.  A declared type is the sequence of its *)
(* characters, or the empty sequence when the column has none; a picked    *)
(* column is null or a name.                                               *)
(***************************************************************************)
NumericSample == 20
CategoricalSample == 50
MaxUnique == 20

NullCol == [null |-> TRUE, name |-> ""]
Col(name) == [null |-> FALSE, name |-> name]

\* !numericCol: null and the empty string are falsy.
Falsy(c) == c.null \/ c.name = ""

\* toLowerCase() on the letters that occur in the declared types.
ToLowerCase(t) ==
  [i \in 1..Len(t) |-> CASE t[i] = "I" -> "i" [] t[i] = "N" -> "n" [] OTHER -> t[i]]

\* t.includes(part)
Includes(t, part) ==
  \E i \in 0..(Len(t) - Len(part)) : \A j \in 1..Len(part) : t[i + j] = part[j]

\* col.type?.toLowerCase().includes("num") || ...includes("int")
DeclaredNumeric(type) ==
  Includes(ToLowerCase(type), <<"n", "u", "m">>)
    \/ Includes(ToLowerCase(type), <<"i", "n", "t">>)

\* new Set(sample.filter(v => v !== null && v !== undefined && v !== "")).size
UniqueCount(data, name) ==
  LET sample == Prefix(ColumnOf(data, name), CategoricalSample)
  IN Cardinality({sample[i] : i \in 1..Len(sample)} \ {Null, Undefined, Str("")})


\* The body of "for (const col of columns)".
PickStep(acc, col, data) ==
  LET numericCol ==
        IF ~Falsy(acc.numericCol) THEN acc.numericCol
        ELSE IF DeclaredNumeric(col.type) \/ PassesSampling(data, col.name, NumericSample)
          THEN Col(col.name) ELSE acc.numericCol
      uniqueCount == UniqueCount(data, col.name)
      categoricalCol ==
        IF ~Falsy(acc.categoricalCol) THEN acc.categoricalCol
        ELSE IF uniqueCount > 1 /\ uniqueCount <= MaxUnique
          THEN Col(col.name) ELSE acc.categoricalCol
  IN [numericCol |-> numericCol, categoricalCol |-> categoricalCol]

\* The loop, left at the first column after which both picks are truthy.
RECURSIVE PickLoop(_, _, _, _)
PickLoop(columns, data, i, acc) ==
  IF i > Len(columns) THEN acc
  ELSE LET next == PickStep(acc, columns[i], data)
       IN IF ~Falsy(next.numericCol) /\ ~Falsy(next.categoricalCol) THEN next
          ELSE PickLoop(columns, data, i + 1, next)

pickQuickColumns(columns, data) ==
  PickLoop(columns, data, 1, [numericCol |-> NullCol, categoricalCol |-> NullCol])

(***************************************************************************)
(* pickQuickColumns run on its own.  A column of the data is k numbers,    *)
(* all different or all the same, followed by one filler value.            *)
(***************************************************************************)
ColumnCells(len, k, same, fill) ==
  [i \in 1..len |-> IF i <= k THEN (IF same THEN Num(1) ELSE Num(i)) ELSE fill]

PickLengths == {0, 5, 9, 21}
PickShapes(len) ==
  {ColumnCells(len, k, same, fill) :
     k \in {0, 1, 5, 6, len} \cap 0..len, same \in BOOLEAN, fill \in {Str("x"), Null}}
PickTypes == {<<>>, <<"s", "t", "r", "i", "n", "g">>, <<"n", "u", "m", "b", "e", "r">>,
              <<"I", "n", "t", "e", "g", "e", "r">>}
PickNames == {<<"a", "b">>, <<"", "b">>, <<"a", "">>}

PickInputs(lengths) ==
  UNION {{[columns |-> <<[name |-> names[1], type |-> t1], [name |-> names[2], type |-> t2]>>,
           data |-> [i \in 1..len |-> (names[1] :> c1[i]) @@ (names[2] :> c2[i])]] :
            names \in PickNames, t1 \in PickTypes, t2 \in PickTypes,
            c1 \in PickShapes(len), c2 \in PickShapes(len)} : len \in lengths}

InitPick ==
  /\ ViewInit
  /\ AggIdle
  /\ SumIdle
  /\ CtxIdle
  /\ QIdle
  /\ ovIn \in PickInputs(PickLengths)
  /\ ovOut = <<>>
  /\ ovPc = "ready"
  /\ pv = <<>>
  /\ ChartIdle

PickRun ==
  /\ ovPc = "ready"
  /\ ovOut' = pickQuickColumns(ovIn.columns, ovIn.data)
  /\ ovPc' = "done"
  /\ UNCHANGED <<ovIn, pv, viewVars, aggVars, sumVars, ctxVars, qVars, chartVars>>

NextPick == PickRun

SpecPick == InitPick /\ [][NextPick]_vars

(***************************************************************************)
(* Properties of pickQuickColumns (SpecPick).                              *)
(***************************************************************************)
\* The first n cells of a column of the input.
Sampled(name, n) == Prefix(ColumnOf(ovIn.data, name), n)
CoercibleCount(name) ==
  LET sample == Sampled(name, NumericSample)
  IN Cardinality({i \in 1..Len(sample) :
                    sample[i].t = "num" \/ (sample[i].t = "str" /\ sample[i].n >= 0)})
DistinctNonEmpty(name) ==
  LET sample == Sampled(name, CategoricalSample)
  IN Cardinality({sample[i] : i \in 1..Len(sample)} \ {Null, Undefined, Str("")})

\* The rules of the claim, for the column at position i.
NumericRule(i) ==
  \/ ovIn.columns[i].type \in {<<"n", "u", "m", "b", "e", "r">>,
                               <<"I", "n", "t", "e", "g", "e", "r">>}
  \/ /\ CoercibleCount(ovIn.columns[i].name) >= 5
     /\ 10 * CoercibleCount(ovIn.columns[i].name)
          >= 6 * Len(Sampled(ovIn.columns[i].name, NumericSample))
CategoricalRule(i) ==
  /\ DistinctNonEmpty(ovIn.columns[i].name) >= 2
  /\ DistinctNonEmpty(ovIn.columns[i].name) <= 20

\* The first column that satisfies each rule, or null.
FirstNumeric ==
  IF \E i \in 1..Len(ovIn.columns) : NumericRule(i)
  THEN Col(ovIn.columns[CHOOSE i \in 1..Len(ovIn.columns) :
                          NumericRule(i) /\ \A j \in 1..(i - 1) : ~NumericRule(j)].name)
  ELSE NullCol
FirstCategorical ==
  IF \E i \in 1..Len(ovIn.columns) : CategoricalRule(i)
  THEN Col(ovIn.columns[CHOOSE i \in 1..Len(ovIn.columns) :
                          CategoricalRule(i) /\ \A j \in 1..(i - 1) : ~CategoricalRule(j)].name)
  ELSE NullCol

\* C26: the quick numeric column is the first column, in column order, that
\* is numeric by its declared type or by its sampled values, the quick
\* categorical column is the first with 2 to 20 distinct non-empty sampled
\* values, and no later column is picked when an earlier one satisfies the
\* rule.
C26_FirstMatchingColumn ==
  ovPc = "done" =>
    /\ ovOut.numericCol = FirstNumeric
    /\ ovOut.categoricalCol = FirstCategorical

(***************************************************************************)
(* The dispatch boundary with its scheduling: the event loop of a live     *)
(* worker delivers every queued request, and the event loop of the page    *)
(* delivers every queued response to the mounted view.                     *)
(***************************************************************************)
\* The part of WorkerOnMessage that takes the request: self.onmessage runs to
\* completion on every event.data, so a step of WorkerOnMessage is possible
\* exactly when this is, and it is a step of [Next]_vars only as part of
\* WorkerOnMessage.
WorkerTakes ==
  \E w \in 1..Len(workers) :
    /\ workers[w] = "live"
    /\ inbox[w] /= <<>>
    /\ inbox' = [inbox EXCEPT ![w] = RemoveAt(@, TakeIndex(@))]
    /\ handledLog' = Append(handledLog, inbox[w][TakeIndex(inbox[w])].id)

Fairness == WF_<<inbox, handledLog>>(WorkerTakes) /\ WF_vars(ViewOnMessage)

SpecLive == Init /\ [][Next]_vars /\ Fairness

\* Request i has been dispatched; the view has consumed a response to it.
WasDispatched(i) == i < nextId
Answered(i) == \E k \in 1..Len(received) : received[k].id = i
NoneInFlight == \A i \in 1..(nextId - 1) : Answered(i)

\* C27: while the view is not discarded every dispatched request is
\* eventually answered; whenever no request is in flight the processing
\* indicator is false; and the indicator goes from false to true only in a
\* dispatch that puts its request in the queue of a live worker.
C27_AnsweredAndIndicator ==
  /\ \A i \in 1..MaxRequests :
       WasDispatched(i) ~> (Answered(i) \/ view = "discarded")
  /\ [](view = "mounted" /\ NoneInFlight => ~state.isProcessing)
  /\ [][~state.isProcessing /\ state'.isProcessing =>
          /\ nextId' = nextId + 1
          /\ lostPosts' = lostPosts
          /\ workerRef' /= 0
          /\ workers'[workerRef'] = "live"
          /\ inbox'[workerRef'] /= <<>>
          /\ inbox'[workerRef'][Len(inbox'[workerRef'])].id = nextId]_vars

\* Two requests were dispatched, the first one failed, and both have been
\* answered to the mounted view.
C27_Witness ==
  /\ view = "mounted"
  /\ nextId = 3
  /\ NoneInFlight
  /\ \E k \in 1..Len(received) : received[k].status = "error"
  /\ ~state.isProcessing

(***************************************************************************)
(* chartStateReducer on its own: SET_AXIS and the filter actions, applied  *)
(* to the chart state in any order.  The state carries the filter list;    *)
(* colorPalette and layout are set by no action taken here.                *)
(***************************************************************************)
MaxActions == 3

AxisValues == {"region", "sales", "units"}
FilterColumns == {"region", "sales"}
CategoryValues == {"A", "B"}
RangeValues == {<<0, 10>>}

\* Visualizations: initialState, with its filter list.
InitialChartState ==
  [xAxis |-> "", yAxis |-> "", aggregation |-> "sum", sortKey |-> "y",
   sortDirection |-> "desc", isProcessing |-> FALSE, colorPalette |-> "vibrant",
   filters |-> <<>>]

\* state.filters.filter(f => f.column !== column)
WithoutColumn(filters, column) ==
  LET Other(f) == f.column /= column IN SelectSeq(filters, Other)

\* { ...action.payload, type }
FilterOf(payload, type) ==
  [column |-> payload.column, value |-> payload.value, type |-> type]

\* An ADD_FILTER that keeps the filters the column already has.
AddFilterKeepsOld(st, payload) ==
  [st EXCEPT !.filters = Append(@, FilterOf(payload, "categorical"))]

\* case "ADD_FILTER"
AddFilterReducer(st, payload) ==
  [st EXCEPT !.filters =
     Append(WithoutColumn(@, payload.column), FilterOf(payload, "categorical"))]

\* case "SET_RANGE_FILTER"
SetRangeFilterReducer(st, payload) ==
  [st EXCEPT !.filters =
     Append(WithoutColumn(@, payload.column), FilterOf(payload, "range"))]

\* case "RESET_FILTERS"
ResetFiltersReducer(st) == [st EXCEPT !.filters = <<>>]

\* dispatch(action): the reducer's result becomes the state.
Dispatch(action, st) ==
  /\ Len(actionLog) < MaxActions
  /\ state' = st
  /\ actionLog' = Append(actionLog, action)
  /\ UNCHANGED <<view, dataset, chartData, workerRef, workers, inbox, outbox, lastDeps,
                 nextId, sent, handledLog, postLog, received, lostPosts, aggVars,
                 sumVars, ctxVars, qVars, ovVars>>

ChartSetAxis ==
  \E axis \in {"x", "y"}, value \in AxisValues :
    Dispatch([type |-> "SET_AXIS", payload |-> [axis |-> axis, value |-> value]],
             SetAxisReducer(state, axis, value))

ChartAddFilter ==
  \E payload \in [column : FilterColumns, value : CategoryValues] :
    Dispatch([type |-> "ADD_FILTER", payload |-> payload],
             AddFilterReducer(state, payload))

ChartSetRangeFilter ==
  \E payload \in [column : FilterColumns, value : RangeValues] :
    Dispatch([type |-> "SET_RANGE_FILTER", payload |-> payload],
             SetRangeFilterReducer(state, payload))

ChartResetFilters ==
  Dispatch([type |-> "RESET_FILTERS", payload |-> <<>>], ResetFiltersReducer(state))

\* The chart state after INIT_STATE, for every pair of initial axes the axes
\* effect can compute (equal ones included), or before it.
InitChart ==
  /\ view = "mounted"
  /\ dataset = [ver |-> 0, data |-> NoData]
  /\ state \in {InitialChartState}
                 \cup {InitStateReducer(InitialChartState, x, y) : x, y \in AxisValues}
  /\ chartData = <<>>
  /\ workerRef = 0
  /\ workers = <<>>
  /\ inbox = <<>>
  /\ outbox = <<>>
  /\ lastDeps = NoDeps
  /\ nextId = 1
  /\ sent = <<>>
  /\ handledLog = <<>>
  /\ postLog = <<>>
  /\ received = <<>>
  /\ lostPosts = 0
  /\ AggIdle
  /\ SumIdle
  /\ CtxIdle
  /\ QIdle
  /\ OvIdle
  /\ actionLog = <<>>

NextChart ==
  \/ ChartSetAxis
  \/ ChartAddFilter
  \/ ChartSetRangeFilter
  \/ ChartResetFilters

SpecChart == InitChart /\ [][NextChart]_vars

(***************************************************************************)
(* Properties of the reducer (SpecChart).                                  *)
(***************************************************************************)
\* The action of a step that dispatched one.
Stepped == Len(actionLog') = Len(actionLog) + 1
LastAction == actionLog[Len(actionLog)]

\* The fields other than the two axes, and other than the filters, are kept.
KeepsButAxes ==
  [state' EXCEPT !.xAxis = state.xAxis, !.yAxis = state.yAxis] = state
KeepsButFilters == [state' EXCEPT !.filters = state.filters] = state

\* C28: from a chart state whose axes differ a SET_AXIS leaves them
\* different: a value that is on the other axis swaps the two axes, any
\* other SET_AXIS changes the named axis only.
C28_AxesStayDifferent ==
  [][Stepped /\ LastAction'.type = "SET_AXIS" /\ state.xAxis /= state.yAxis =>
       LET axis == LastAction'.payload.axis
           value == LastAction'.payload.value
           other == IF axis = "x" THEN state.yAxis ELSE state.xAxis
       IN /\ state'.xAxis /= state'.yAxis
          /\ KeepsButAxes
          /\ IF value = other
             THEN state'.xAxis = state.yAxis /\ state'.yAxis = state.xAxis
             ELSE IF axis = "x"
             THEN state'.xAxis = value /\ state'.yAxis = state.yAxis
             ELSE state'.yAxis = value /\ state'.xAxis = state.xAxis]_vars

\* Three SET_AXIS in a row from different axes, the last one a swap.
C28_Witness ==
  /\ Len(actionLog) = 3
  /\ \A i \in 1..3 : actionLog[i].type = "SET_AXIS"
  /\ actionLog[2].payload.value = "units"
  /\ actionLog[3].payload = [axis |-> "y", value |-> "units"]
  /\ actionLog[2].payload.axis = "x"
  /\ state.xAxis /= "units"
  /\ state.yAxis = "units"

\* The filter actions of the log, and the last one that names the column
\* after the last RESET_FILTERS (0 when there is none).
IsFilterAction(a) == a.type \in {"ADD_FILTER", "SET_RANGE_FILTER", "RESET_FILTERS"}
LastReset ==
  LET at == {i \in 1..Len(actionLog) : actionLog[i].type = "RESET_FILTERS"}
  IN IF at = {} THEN 0 ELSE CHOOSE i \in at : \A j \in at : j <= i
LastAdded(column) ==
  LET at == {i \in (LastReset + 1)..Len(actionLog) :
               /\ actionLog[i].type \in {"ADD_FILTER", "SET_RANGE_FILTER"}
               /\ actionLog[i].payload.column = column}
  IN IF at = {} THEN 0 ELSE CHOOSE i \in at : \A j \in at : j <= i
FiltersOf(column) == {k \in 1..Len(state.filters) : state.filters[k].column = column}

\* C29: after any sequence of filter actions the list holds at most one
\* filter per column, the one most recently added for it (none when nothing
\* was added since the last RESET_FILTERS, which empties the list), and a
\* filter action changes no other field of the chart state.
C29_OneFilterPerColumn ==
  /\ [](\A column \in FilterColumns :
          LET last == LastAdded(column)
          IN IF last = 0 THEN FiltersOf(column) = {}
             ELSE /\ Cardinality(FiltersOf(column)) = 1
                  /\ \A k \in FiltersOf(column) :
                       /\ state.filters[k].value = actionLog[last].payload.value
                       /\ state.filters[k].type =
                            (IF actionLog[last].type = "ADD_FILTER"
                             THEN "categorical" ELSE "range"))
  /\ [](actionLog /= <<>> /\ LastAction.type = "RESET_FILTERS" => state.filters = <<>>)
  /\ [][Stepped /\ IsFilterAction(LastAction') => KeepsButFilters]_vars

\* A column filtered twice and another once: the list holds the second
\* filter of the first column (moved behind the other column's).
C29_Witness ==
  /\ Len(actionLog) = 3
  /\ actionLog[1] = [type |-> "ADD_FILTER", payload |-> [column |-> "region", value |-> "A"]]
  /\ actionLog[2].type = "SET_RANGE_FILTER" /\ actionLog[2].payload.column = "sales"
  /\ actionLog[3] = [type |-> "ADD_FILTER", payload |-> [column |-> "region", value |-> "B"]]
  /\ Len(state.filters) = 2
  /\ state.filters[2].value = "B"

(***************************************************************************)
(* Overview.tsx: the preview effect.  pv holds the view's dataset (from    *)
(* the context), rowLimit and previewData, the fetches that have not       *)
(* settled, and as history the number of runs of the effect and what each  *)
(* settled run handed to setPreviewData.                                   *)
(***************************************************************************)
MaxRuns == 3

DefaultRowLimit == 50
AllRows == -1
RowLimits == {10, DefaultRowLimit, AllRows}

\* Row lists: none yet (null), [], the dataset's own rows, the rows the
\* server returns for a dataset id and a limit.
NoPreview == [kind |-> "null", id |-> 0, limit |-> 0]
EmptyRows == [kind |-> "empty", id |-> 0, limit |-> 0]
OwnRows(id) == [kind |-> "own", id |-> id, limit |-> 0]
ServerRows(id, limit) == [kind |-> "server", id |-> id, limit |-> limit]

\* The context's dataset: null, or an id (0 when falsy) with or without rows.
PvNull == [null |-> TRUE, id |-> 0, hasData |-> FALSE, tag |-> 0]
PvDataset(id, hasData, tag) == [null |-> FALSE, id |-> id, hasData |-> hasData, tag |-> tag]
PvDatasets ==
  {PvNull} \cup {PvDataset(id, hasData, id) : id \in {1, 2}, hasData \in BOOLEAN}
           \cup {PvDataset(0, TRUE, 3)}

\* dataset?.data || [] and dataset.data || []
DataOrEmpty(ds) == IF ~ds.null /\ ds.hasData THEN OwnRows(ds.tag) ELSE EmptyRows

\* What /preview/{id}?limit= answers, as fetchPreview returns it: the rows
\* as an array, inside { data }, inside { rows }, or null after a failure.
Responses == {"array", "data", "rows", "null"}

\* The rows loadPreview takes from a response (lines 443-453).
RowsOfResponse(resp, fetch) ==
  IF resp \in {"array", "data", "rows"} THEN ServerRows(fetch.ds.id, fetch.limit)
  ELSE IF fetch.ds.hasData THEN OwnRows(fetch.ds.tag)
  ELSE EmptyRows

\* setPreviewData(rows) by run n of the effect.
Settle(p, n, rows) ==
  [p EXCEPT !.previewData = rows, !.results = [@ EXCEPT ![n] = rows],
            !.settled = @ \cup {n}]

\* One run of the effect: loadPreview up to its await, with the dataset and
\* row limit of the render.
LoadPreview(p) ==
  LET n == p.runs + 1
      q == [p EXCEPT !.runs = n, !.results = Append(@, NoPreview)]
  IN IF p.dataset.null \/ p.dataset.id = 0
     THEN Settle(q, n, DataOrEmpty(p.dataset))
     ELSE IF p.rowLimit = AllRows /\ p.dataset.hasData
     THEN Settle(q, n, OwnRows(p.dataset.tag))
     ELSE [q EXCEPT !.fetches = @ \cup
             {[n |-> n, ds |-> p.dataset,
               limit |-> IF p.rowLimit > 0 THEN p.rowLimit ELSE DefaultRowLimit]}]

\* useState(null), useState(50), before the first run of the effect.
PvInitial(ds) ==
  [dataset |-> ds, rowLimit |-> DefaultRowLimit, previewData |-> NoPreview,
   fetches |-> {}, runs |-> 0, results |-> <<>>, settled |-> {}]

PvFrame == UNCHANGED <<viewVars, aggVars, sumVars, ctxVars, qVars, ovIn, ovOut, ovPc,
                       chartVars>>

\* setRowLimit(val) from the dropdown, then the effect of the next render.
PvSetRowLimit ==
  \E val \in RowLimits :
    /\ pv.runs < MaxRuns
    /\ val /= pv.rowLimit
    /\ pv' = LoadPreview([pv EXCEPT !.rowLimit = val])
    /\ PvFrame

\* The context stores another dataset object, then the effect runs.
PvSetDataset ==
  \E ds \in PvDatasets :
    /\ pv.runs < MaxRuns
    /\ ds /= pv.dataset
    /\ pv' = LoadPreview([pv EXCEPT !.dataset = ds])
    /\ PvFrame

\* The provider renders for another reason: fetchPreview is a new function,
\* so the effect runs again with the same dataset and row limit.
PvProviderRender ==
  /\ pv.runs < MaxRuns
  /\ pv' = LoadPreview(pv)
  /\ PvFrame

\* A fetch settles, in any order, and loadPreview resumes after its await.
PvFetchSettles ==
  \E fetch \in pv.fetches, resp \in Responses :
    /\ pv' = Settle([pv EXCEPT !.fetches = @ \ {fetch}], fetch.n,
                    RowsOfResponse(resp, fetch))
    /\ PvFrame

InitPreview ==
  /\ ViewInit
  /\ AggIdle
  /\ SumIdle
  /\ CtxIdle
  /\ QIdle
  /\ ovIn = <<>> /\ ovOut = <<>> /\ ovPc = "idle"
  /\ \E ds \in PvDatasets : pv = LoadPreview(PvInitial(ds))
  /\ ChartIdle

NextPreview ==
  \/ PvSetRowLimit
  \/ PvSetDataset
  \/ PvProviderRender
  \/ PvFetchSettles

SpecPreview == InitPreview /\ [][NextPreview]_vars

(***************************************************************************)
(* Properties of the preview effect (SpecPreview).                         *)
(***************************************************************************)
\* The latest run of the effect that has handed its rows over.
LatestSettled == CHOOSE n \in pv.settled : \A k \in pv.settled : k <= n

\* C30: the preview rows shown are those of the latest run of the effect
\* that has settled, so that rows of an earlier fetch never replace those
\* of a later one and, once every fetch has settled, the rows are those for
\* the latest dataset and row limit.
C30_LatestPreviewShown ==
  pv.settled /= {} => pv.previewData = pv.results[LatestSettled]

====
